---- MODULE Spec2Model ----
(***************************************************************************)
(* LoComm: the credential / secure-channel module (security_protocol.cpp)  *)
(* and the computer-facing packet layer (LoCommAPI.cpp, apiCode.cpp).      *)
(*                                                                         *)
(* Cryptographic primitives are modelled symbolically: SHA-256, PBKDF2 and *)
(* AES-GCM are injective constructors, so two digests (keys, blobs) are    *)
(* equal exactly when their inputs are.  Everything else (the Z85 codec,   *)
(* the CRC, the control flow of every function) is computed as the code    *)
(* computes it.                                                            *)
(***************************************************************************)
EXTENDS Integers, Sequences, FiniteSets, TLC

\* ------------------------------------------------------------------ bounds
NumPasswords == 2
NumSalts == 2
NumKeys == 2
\* frames the computer sends, inbound radio messages, writes to Serial followed
MaxRequests == 2
MaxInbound == 1
MaxWrites == 4
NumTasks == 3
MaxQueued == 3
\* the template arguments of DefraggingBuffer (2048 and 8 in the program) and
\* of CyclicArrayList, and the number of calls made on a container
SIZE == 4
MAX_ALLOCATIONS == 3
LIST_SIZE == 3
MaxCalls == 6

\* ------------------------------------------------------- program constants
Z85Base == 85
KeyLen == 16
ExportLen == 20

\* passwords are C strings, as character codes; the first is the literal
\* "password" of sec_init, the others are "p2", "p3", ...
DefaultPassword == <<112, 97, 115, 115, 119, 111, 114, 100>>
Pw(i) == IF i = 1 THEN DefaultPassword ELSE <<112, 48 + i>>
Passwords == {Pw(i) : i \in 1..NumPasswords}
Salts == 1..NumSalts

\* ------------------------------------------------------------ byte helpers
Zero16 == [i \in 1..KeyLen |-> 0]

\* a 16-byte value the RNG can produce
KeyBytes(k) == [i \in 1..KeyLen |-> (k * 37 + i * 53) % 256]

\* ------------------------------------------------------------ Z85 codec
\* A uint32 is kept as <<high 16 bits, low 16 bits>>.
Div85(v) ==
    LET q1 == v[1] \div Z85Base
        r1 == v[1] % Z85Base
        t  == r1 * 65536 + v[2]
    IN  [q |-> <<q1, t \div Z85Base>>, r |-> t % Z85Base]

\* val = val * 85 + d in uint32 arithmetic
MulAdd85(v, d) ==
    LET lo == v[2] * Z85Base + d
        hi == v[1] * Z85Base + (lo \div 65536)
    IN  <<hi % 65536, lo % 65536>>

\* Z85_CHARS, as character codes:
\* 0-9 a-z A-Z . - : + = ^ ! / * ? & < > ( ) [ ] { } @ % $ #
Z85_CHARS ==
    << 48, 49, 50, 51, 52, 53, 54, 55, 56, 57, 97, 98, 99, 100, 101, 102, 103,
       104, 105, 106, 107, 108, 109, 110, 111, 112, 113, 114, 115, 116, 117, 118, 119, 120,
       121, 122, 65, 66, 67, 68, 69, 70, 71, 72, 73, 74, 75, 76, 77, 78, 79,
       80, 81, 82, 83, 84, 85, 86, 87, 88, 89, 90, 46, 45, 58, 43, 61, 94,
       33, 47, 42, 63, 38, 60, 62, 40, 41, 91, 93, 123, 125, 64, 37, 36, 35 >>

\* 4 bytes -> 5 characters
z85_encode_block(src) ==
    LET v0 == <<src[1] * 256 + src[2], src[3] * 256 + src[4]>>
        d4 == Div85(v0)
        d3 == Div85(d4.q)
        d2 == Div85(d3.q)
        d1 == Div85(d2.q)
        d0 == Div85(d1.q)
    IN  <<Z85_CHARS[d0.r + 1], Z85_CHARS[d1.r + 1], Z85_CHARS[d2.r + 1],
          Z85_CHARS[d3.r + 1], Z85_CHARS[d4.r + 1]>>

\* strchr(Z85_CHARS, c) for a character c other than NUL
InAlphabet(c) == \E i \in 1..Z85Base : Z85_CHARS[i] = c
CharIndex(c) == (CHOOSE i \in 1..Z85Base : Z85_CHARS[i] = c) - 1

\* 5 characters -> 4 bytes; ok is FALSE at the first character not found
z85_decode_block(src) ==
    IF \E i \in 1..5 : ~InAlphabet(src[i])
    THEN [ok |-> FALSE, bytes |-> <<0, 0, 0, 0>>]
    ELSE LET v1 == MulAdd85(<<0, 0>>, CharIndex(src[1]))
             v2 == MulAdd85(v1, CharIndex(src[2]))
             v3 == MulAdd85(v2, CharIndex(src[3]))
             v4 == MulAdd85(v3, CharIndex(src[4]))
             v5 == MulAdd85(v4, CharIndex(src[5]))
         IN  [ok |-> TRUE,
              bytes |-> <<v5[1] \div 256, v5[1] % 256, v5[2] \div 256, v5[2] % 256>>]

\* the loop of sec_generate_key / sec_display_key: 16 bytes -> 20 characters
EncodeKey(key) ==
    z85_encode_block(SubSeq(key, 1, 4)) \o z85_encode_block(SubSeq(key, 5, 8)) \o
    z85_encode_block(SubSeq(key, 9, 12)) \o z85_encode_block(SubSeq(key, 13, 16))

\* ------------------------------------------------- symbolic cryptography
\* 32 zero bytes in the place of a digest
ZeroHash == <<"sha256", 0, <<>> >>
\* _sec_hash_password with the password left out of the digest
sec_hash_password_SaltOnly(password, salt) == <<"sha256", salt, <<>> >>
\* _sec_hash_password: SHA-256(salt ++ password)
sec_hash_password(password, salt) == <<"sha256", salt, password>>
\* _sec_derive_key: PBKDF2-HMAC-SHA256(password, salt, 10000 iterations, 32 bytes)
sec_derive_key(password, salt) == <<"kek", salt, password>>
\* 32 zero bytes
ZeroKey32 == <<"kek", 0, <<>> >>
\* AES-256-GCM of a 16-byte plaintext: ciphertext (16) ++ tag (16)
GcmEncrypt(key, iv, pt) == <<"gcm", key, iv, pt>>
\* 32 zero bytes in the place of a blob
ZeroBlob == <<"gcm", ZeroKey32, 0, Zero16>>
\* a blob left half-written by a failed encryption
DirtyBlob == <<"gcm", ZeroKey32, 0, KeyBytes(0)>>
\* the tag verifies exactly under the key and IV the blob was made with
GcmTagOk(key, iv, blob) == blob # ZeroBlob /\ blob # DirtyBlob /\ blob[2] = key /\ blob[3] = iv


\* ------------------------------------------------------------ the state
VARIABLES
    \* security_protocol.cpp globals
    g_is_initialized, g_is_logged_in, g_is_paired,
    g_password_hash, g_password_salt, g_encrypted_d2d_key,
    g_decrypted_d2d_key, g_wrapping_key,
    \* Preferences storage: a function from the keys present to their bytes
    storage,
    \* observation of the calls made so far (not program state)
    hist

secVars == <<g_is_initialized, g_is_logged_in, g_is_paired,
             g_password_hash, g_password_salt, g_encrypted_d2d_key,
             g_decrypted_d2d_key, g_wrapping_key, storage>>

\* the module's state as one value, passed through the functions below
Sec == [g_is_initialized |-> g_is_initialized, g_is_logged_in |-> g_is_logged_in,
        g_is_paired |-> g_is_paired, g_password_hash |-> g_password_hash,
        g_password_salt |-> g_password_salt,
        g_encrypted_d2d_key |-> g_encrypted_d2d_key,
        g_decrypted_d2d_key |-> g_decrypted_d2d_key,
        g_wrapping_key |-> g_wrapping_key, storage |-> storage]

\* ------------------------------------------------------ Preferences (NVM)
NVM_KEY_SALT == "sec_salt"
NVM_KEY_HASH == "sec_hash"
NVM_KEY_D2D_KEY == "sec_d2d_key"

isKey(st, k) == k \in DOMAIN st
putBytes(st, k, v) == [x \in DOMAIN st \cup {k} |-> IF x = k THEN v ELSE st[x]]
remove(st, k) == [x \in DOMAIN st \ {k} |-> st[x]]
EmptyStorage == [x \in {} |-> 0]

\* -------------------------------------------------- primitive failures
\* The place, if any, where a library call reports failure during one call
\* of the module.  A failing primitive leaves its output buffer untouched,
\* except "wrap_dirty" (a GCM encryption that fails after writing output).
NoFault == "none"
FaultSites == {"login_hash", "login_kdf", "login_setkey", "salt", "hash", "kdf",
               "wrap_setkey", "wrap_dirty", "d2d"}

Result(s, ret, out) == [s |-> s, ret |-> ret, out |-> out]
NoOut == <<>>

\* --------------------------------------------------------------- helpers
\* _sec_encrypt_and_save_d2d_key
sec_encrypt_and_save_d2d_key(s, f) ==
    IF f = "wrap_setkey" THEN Result(s, FALSE, NoOut)
    ELSE IF f = "wrap_dirty"
    THEN Result([s EXCEPT !.g_encrypted_d2d_key = DirtyBlob], FALSE, NoOut)
    ELSE LET blob == GcmEncrypt(s.g_wrapping_key, s.g_password_salt, s.g_decrypted_d2d_key)
         IN  Result([s EXCEPT !.g_encrypted_d2d_key = blob,
                              !.storage = putBytes(s.storage, NVM_KEY_D2D_KEY, blob),
                              !.g_is_paired = TRUE],
                    TRUE, NoOut)

\* sec_logout forgetting the group key
sec_logout_KeepsKey(s) ==
    [s EXCEPT !.g_wrapping_key = ZeroKey32,
              !.g_is_logged_in = FALSE]

sec_logout(s) ==
    [s EXCEPT !.g_decrypted_d2d_key = Zero16,
              !.g_wrapping_key = ZeroKey32,
              !.g_is_logged_in = FALSE]

\* sec_resetPairing leaving the wrapped key in the store
sec_resetPairing_KeepsBlob(s) ==
    [s EXCEPT !.g_encrypted_d2d_key = ZeroBlob,
              !.g_decrypted_d2d_key = Zero16,
              !.g_is_paired = FALSE]

sec_resetPairing(s) ==
    [s EXCEPT !.storage = remove(s.storage, NVM_KEY_D2D_KEY),
              !.g_encrypted_d2d_key = ZeroBlob,
              !.g_decrypted_d2d_key = Zero16,
              !.g_is_paired = FALSE]

\* ------------------------------------------------------------------ auth
sec_setInitialPassword(s, password, newSalt, f) ==
    IF ~s.g_is_initialized THEN Result(s, FALSE, NoOut)
    ELSE IF f = "salt" THEN Result(s, FALSE, NoOut)
    ELSE LET s1 == [s EXCEPT !.g_password_salt = newSalt] IN
         IF f = "hash" THEN Result(s1, FALSE, NoOut)
         ELSE LET s2 == [s1 EXCEPT !.g_password_hash = sec_hash_password(password, newSalt)]
                  s3 == [s2 EXCEPT !.storage =
                            putBytes(putBytes(s2.storage, NVM_KEY_SALT, s2.g_password_salt),
                                     NVM_KEY_HASH, s2.g_password_hash)]
              IN  Result(sec_resetPairing(s3), TRUE, NoOut)

\* sec_login ending the session when the hash does not match
sec_login_LogoutOnMismatch(s, password, f) ==
    IF ~s.g_is_initialized THEN Result(s, FALSE, NoOut)
    ELSE IF f = "login_hash" THEN Result(s, FALSE, NoOut)
    ELSE IF sec_hash_password(password, s.g_password_salt) # s.g_password_hash
    THEN Result(sec_logout(s), FALSE, NoOut)
    ELSE IF f = "login_kdf" THEN Result(s, FALSE, NoOut)
    ELSE LET s1 == [s EXCEPT !.g_wrapping_key = sec_derive_key(password, s.g_password_salt)] IN
         IF ~s1.g_is_paired
         THEN Result([s1 EXCEPT !.g_is_logged_in = TRUE], TRUE, NoOut)
         ELSE IF f = "login_setkey"
         THEN Result([s1 EXCEPT !.g_wrapping_key = ZeroKey32], FALSE, NoOut)
         ELSE IF ~GcmTagOk(s1.g_wrapping_key, s1.g_password_salt, s1.g_encrypted_d2d_key)
         THEN Result([s1 EXCEPT !.g_decrypted_d2d_key = Zero16,
                                !.g_wrapping_key = ZeroKey32], FALSE, NoOut)
         ELSE Result([s1 EXCEPT !.g_decrypted_d2d_key = s1.g_encrypted_d2d_key[4],
                                !.g_is_logged_in = TRUE], TRUE, NoOut)

sec_login(s, password, f) ==
    IF ~s.g_is_initialized THEN Result(s, FALSE, NoOut)
    ELSE IF f = "login_hash" THEN Result(s, FALSE, NoOut)
    ELSE IF sec_hash_password(password, s.g_password_salt) # s.g_password_hash
    THEN Result(s, FALSE, NoOut)
    ELSE IF f = "login_kdf" THEN Result(s, FALSE, NoOut)
    ELSE LET s1 == [s EXCEPT !.g_wrapping_key = sec_derive_key(password, s.g_password_salt)] IN
         IF ~s1.g_is_paired
         THEN Result([s1 EXCEPT !.g_is_logged_in = TRUE], TRUE, NoOut)
         ELSE IF f = "login_setkey"
         THEN \* mbedtls_gcm_setkey failed: the decryption is skipped
              Result([s1 EXCEPT !.g_wrapping_key = ZeroKey32], FALSE, NoOut)
         ELSE IF ~GcmTagOk(s1.g_wrapping_key, s1.g_password_salt, s1.g_encrypted_d2d_key)
         THEN \* mbedtls_gcm_auth_decrypt zeroes its output on a tag mismatch
              Result([s1 EXCEPT !.g_decrypted_d2d_key = Zero16,
                                !.g_wrapping_key = ZeroKey32], FALSE, NoOut)
         ELSE Result([s1 EXCEPT !.g_decrypted_d2d_key = s1.g_encrypted_d2d_key[4],
                                !.g_is_logged_in = TRUE], TRUE, NoOut)

\* sec_changePassword re-wrapping the group key before the new wrapping key
\* is derived (the blob is made under the old password's key)
sec_changePassword_WrapsUnderOldKey(s, oldPassword, newPassword, newSalt, f) ==
    LET l == sec_login(s, oldPassword, f) IN
    IF ~l.ret THEN Result(l.s, FALSE, NoOut)
    ELSE IF ~l.s.g_is_paired
    THEN LET r == sec_setInitialPassword(l.s, newPassword, newSalt, f)
         IN  Result(sec_logout(r.s), r.ret, NoOut)
    ELSE IF f = "salt" THEN Result(sec_logout(l.s), FALSE, NoOut)
    ELSE LET s1 == [l.s EXCEPT !.g_password_salt = newSalt] IN
         IF f = "hash" THEN Result(sec_logout(s1), FALSE, NoOut)
         ELSE LET s2 == [s1 EXCEPT !.g_password_hash = sec_hash_password(newPassword, newSalt)] IN
              IF f = "kdf" THEN Result(sec_logout(s2), FALSE, NoOut)
              ELSE LET e  == sec_encrypt_and_save_d2d_key(s2, f)
                       s4 == [e.s EXCEPT !.storage =
                                 putBytes(putBytes(e.s.storage, NVM_KEY_SALT, e.s.g_password_salt),
                                          NVM_KEY_HASH, e.s.g_password_hash)]
                   IN  Result(sec_logout(s4), e.ret, NoOut)

\* sec_changePassword drawing the new salt before it verifies the old password
sec_changePassword_SaltFirst(s, oldPassword, newPassword, newSalt, f) ==
    LET s0 == [s EXCEPT !.g_password_salt = newSalt]
        l  == sec_login([s0 EXCEPT !.g_password_salt = s.g_password_salt], oldPassword, f)
    IN
    IF ~l.ret THEN Result([l.s EXCEPT !.g_password_salt = newSalt], FALSE, NoOut)
    ELSE IF ~l.s.g_is_paired
    THEN LET r == sec_setInitialPassword(l.s, newPassword, newSalt, f)
         IN  Result(sec_logout(r.s), r.ret, NoOut)
    ELSE LET s1 == [l.s EXCEPT !.g_password_salt = newSalt] IN
         IF f = "hash" THEN Result(sec_logout(s1), FALSE, NoOut)
         ELSE LET s2 == [s1 EXCEPT !.g_password_hash = sec_hash_password(newPassword, newSalt)] IN
              IF f = "kdf" THEN Result(sec_logout(s2), FALSE, NoOut)
              ELSE LET s3 == [s2 EXCEPT !.g_wrapping_key = sec_derive_key(newPassword, newSalt)]
                       e  == sec_encrypt_and_save_d2d_key(s3, f)
                       s4 == [e.s EXCEPT !.storage =
                                 putBytes(putBytes(e.s.storage, NVM_KEY_SALT, e.s.g_password_salt),
                                          NVM_KEY_HASH, e.s.g_password_hash)]
                   IN  Result(sec_logout(s4), e.ret, NoOut)

sec_changePassword(s, oldPassword, newPassword, newSalt, f) ==
    LET l == sec_login(s, oldPassword, f) IN
    IF ~l.ret THEN Result(l.s, FALSE, NoOut)
    ELSE IF ~l.s.g_is_paired
    THEN LET r == sec_setInitialPassword(l.s, newPassword, newSalt, f)
         IN  Result(sec_logout(r.s), r.ret, NoOut)
    ELSE IF f = "salt" THEN Result(sec_logout(l.s), FALSE, NoOut)
    ELSE LET s1 == [l.s EXCEPT !.g_password_salt = newSalt] IN
         IF f = "hash" THEN Result(sec_logout(s1), FALSE, NoOut)
         ELSE LET s2 == [s1 EXCEPT !.g_password_hash = sec_hash_password(newPassword, newSalt)] IN
              IF f = "kdf" THEN Result(sec_logout(s2), FALSE, NoOut)
              ELSE LET s3 == [s2 EXCEPT !.g_wrapping_key = sec_derive_key(newPassword, newSalt)]
                       e  == sec_encrypt_and_save_d2d_key(s3, f)
                       s4 == [e.s EXCEPT !.storage =
                                 putBytes(putBytes(e.s.storage, NVM_KEY_SALT, e.s.g_password_salt),
                                          NVM_KEY_HASH, e.s.g_password_hash)]
                   IN  Result(sec_logout(s4), e.ret, NoOut)

\* ------------------------------------------------- manual key provisioning
sec_generate_key(s, bufferSize, newKey, f) ==
    IF ~s.g_is_logged_in \/ bufferSize <= ExportLen THEN Result(s, FALSE, NoOut)
    ELSE LET s1 == [s EXCEPT !.g_decrypted_d2d_key = newKey]
             e  == sec_encrypt_and_save_d2d_key(s1, f)
         IN  Result(e.s, e.ret, EncodeKey(newKey))

\* the decode loop of sec_log_key: block i is written as soon as it decodes
RECURSIVE DecodeInto(_, _, _)
DecodeInto(key, str, i) ==
    IF i = 4 THEN [ok |-> TRUE, key |-> key]
    ELSE LET d == z85_decode_block(SubSeq(str, i * 5 + 1, i * 5 + 5)) IN
         IF ~d.ok THEN [ok |-> FALSE, key |-> Zero16]
         ELSE DecodeInto([j \in 1..KeyLen |->
                             IF j \in (i * 4 + 1)..(i * 4 + 4) THEN d.bytes[j - i * 4]
                             ELSE key[j]],
                         str, i + 1)

\* sec_log_key checking the string and then saving the key already in RAM
sec_log_key_KeepsKey(s, inputBase85String, f) ==
    IF ~s.g_is_logged_in \/ Len(inputBase85String) # ExportLen THEN Result(s, FALSE, NoOut)
    ELSE LET d == DecodeInto(s.g_decrypted_d2d_key, inputBase85String, 0) IN
         IF ~d.ok THEN Result([s EXCEPT !.g_decrypted_d2d_key = d.key], FALSE, NoOut)
         ELSE sec_encrypt_and_save_d2d_key(s, f)

sec_log_key(s, inputBase85String, f) ==
    IF ~s.g_is_logged_in \/ Len(inputBase85String) # ExportLen THEN Result(s, FALSE, NoOut)
    ELSE LET d == DecodeInto(s.g_decrypted_d2d_key, inputBase85String, 0) IN
         IF ~d.ok THEN Result([s EXCEPT !.g_decrypted_d2d_key = d.key], FALSE, NoOut)
         ELSE sec_encrypt_and_save_d2d_key([s EXCEPT !.g_decrypted_d2d_key = d.key], f)

\* sec_display_key exporting without a session
sec_display_key_NoLoginGate(s, bufferSize) ==
    IF ~s.g_is_paired \/ bufferSize <= ExportLen
    THEN Result(s, FALSE, NoOut)
    ELSE Result(s, TRUE, EncodeKey(s.g_decrypted_d2d_key))

sec_display_key(s, bufferSize) ==
    IF ~s.g_is_logged_in \/ ~s.g_is_paired \/ bufferSize <= ExportLen
    THEN Result(s, FALSE, NoOut)
    ELSE Result(s, TRUE, EncodeKey(s.g_decrypted_d2d_key))

\* ------------------------------------------------- encryption/decryption
\* A device-to-device message on the wire: [IV (12)] [ciphertext (N)] [tag (8)].
\* len is the number of bytes, iv the first twelve of them, body the
\* ciphertext together with its tag.
D2D_IV_LEN == 12
D2D_TAG_LEN == 8
D2D_OVERHEAD == 20
D2DMessage(len, iv, body) == [len |-> len, iv |-> iv, body |-> body]
ZeroBytes(n) == [i \in 1..n |-> 0]

\* f = "d2d": mbedtls_gcm_setkey or mbedtls_gcm_crypt_and_tag reports failure;
\* the IV and the length are written all the same
sec_encryptD2DMessage(s, plaintext, bufferSize, iv, f) ==
    IF ~s.g_is_logged_in \/ ~s.g_is_paired THEN Result(s, FALSE, NoOut)
    ELSE IF bufferSize < Len(plaintext) + D2D_OVERHEAD THEN Result(s, FALSE, NoOut)
    ELSE LET len == D2D_IV_LEN + Len(plaintext) + D2D_TAG_LEN IN
         IF f = "d2d" THEN Result(s, FALSE, D2DMessage(len, iv, DirtyBlob))
         ELSE Result(s, TRUE,
                     D2DMessage(len, iv, GcmEncrypt(s.g_decrypted_d2d_key, iv, plaintext)))

\* The 8-byte tag verifies when the body was made under the key in RAM with
\* the IV at the front of the message and holds dataLen bytes of ciphertext.
\* mbedtls_gcm_auth_decrypt zeroes the output buffer when it does not.
sec_decryptD2DMessage(s, msg, bufferSize, f) ==
    IF ~s.g_is_logged_in \/ ~s.g_is_paired THEN Result(s, FALSE, NoOut)
    ELSE IF msg.len < D2D_OVERHEAD THEN Result(s, FALSE, NoOut)
    ELSE LET dataLen == msg.len - D2D_OVERHEAD IN
         IF bufferSize < dataLen THEN Result(s, FALSE, NoOut)
         ELSE IF /\ f # "d2d"
                 /\ GcmTagOk(s.g_decrypted_d2d_key, msg.iv, msg.body)
                 /\ Len(msg.body[4]) = dataLen
         THEN Result(s, TRUE, [plaintext |-> msg.body[4], plaintextLen |-> dataLen])
         ELSE Result(s, FALSE, [plaintext |-> ZeroBytes(dataLen), plaintextLen |-> dataLen])

\* -------------------------------------------------------------- lifecycle
\* sec_deinit: the session ends, the copies of hash, salt and blob in RAM are
\* zeroed and the Preferences store is closed with its contents kept
sec_deinit(s) ==
    [sec_logout(s) EXCEPT !.g_password_hash = ZeroHash,
                          !.g_password_salt = 0,
                          !.g_encrypted_d2d_key = ZeroBlob,
                          !.g_is_initialized = FALSE]

\* sec_init never loading the pairing from the store
sec_init_NeverPaired(st, newSalt) ==
    LET s0 == [g_is_initialized |-> TRUE, g_is_logged_in |-> FALSE, g_is_paired |-> FALSE,
               g_password_hash |-> ZeroHash, g_password_salt |-> 0,
               g_encrypted_d2d_key |-> ZeroBlob, g_decrypted_d2d_key |-> Zero16,
               g_wrapping_key |-> ZeroKey32, storage |-> st]
        s1 == IF ~isKey(st, NVM_KEY_SALT)
              THEN sec_setInitialPassword(s0, DefaultPassword, newSalt, NoFault).s
              ELSE s0
        s2 == [s1 EXCEPT !.g_password_salt = s1.storage[NVM_KEY_SALT],
                         !.g_password_hash = s1.storage[NVM_KEY_HASH]]
    IN  sec_logout(s2)

\* sec_init on the given Preferences contents, storage.begin succeeding
sec_init(st, newSalt) ==
    LET s0 == [g_is_initialized |-> TRUE, g_is_logged_in |-> FALSE, g_is_paired |-> FALSE,
               g_password_hash |-> ZeroHash, g_password_salt |-> 0,
               g_encrypted_d2d_key |-> ZeroBlob, g_decrypted_d2d_key |-> Zero16,
               g_wrapping_key |-> ZeroKey32, storage |-> st]
        s1 == IF ~isKey(st, NVM_KEY_SALT)
              THEN sec_setInitialPassword(s0, DefaultPassword, newSalt, NoFault).s
              ELSE s0
        s2 == [s1 EXCEPT !.g_password_salt = s1.storage[NVM_KEY_SALT],
                         !.g_password_hash = s1.storage[NVM_KEY_HASH]]
        s3 == IF isKey(s2.storage, NVM_KEY_D2D_KEY)
              THEN [s2 EXCEPT !.g_encrypted_d2d_key = s2.storage[NVM_KEY_D2D_KEY],
                              !.g_is_paired = TRUE]
              ELSE [s2 EXCEPT !.g_encrypted_d2d_key = ZeroBlob, !.g_is_paired = FALSE]
    IN  sec_logout(s3)


sec_isPaired(s) == s.g_is_paired
sec_isLoggedIn(s) == s.g_is_logged_in

\* ======================================================= the packet layer
\* ----------------------------------------------------- bytes and buffers
\* The packet buffers are static arrays, zero until written.  A buffer is
\* kept as the prefix written so far; bytes beyond it read as zero.
\* Indices are the C indices (from 0).
Get(buf, i) == IF i < Len(buf) THEN buf[i + 1] ELSE 0
\* memcpy(&buf[at], bytes, Len(bytes))
PutAll(buf, at, bytes) ==
    [j \in 1..(IF Len(buf) > at + Len(bytes) THEN Len(buf) ELSE at + Len(bytes)) |->
        IF j - 1 >= at /\ j - 1 < at + Len(bytes) THEN bytes[j - at] ELSE Get(buf, j - 1)]
Put(buf, i, v) == PutAll(buf, i, <<v>>)
\* the n bytes buf[from .. from+n-1]
Slice(buf, from, n) == [j \in 1..n |-> Get(buf, from + j - 1)]
\* a char array read as a C string: the bytes before the first NUL
CStr(bytes) ==
    IF \E i \in 1..Len(bytes) : bytes[i] = 0
    THEN SubSeq(bytes, 1, (CHOOSE i \in 1..Len(bytes) :
                              bytes[i] = 0 /\ \A j \in 1..(i - 1) : bytes[j] # 0) - 1)
    ELSE bytes

\* ------------------------------------------------------------- crc_16
\* bitwise exclusive or of two naturals
RECURSIVE Xor(_, _)
Xor(a, b) ==
    IF a = 0 THEN b
    ELSE IF b = 0 THEN a
    ELSE ((a + b) % 2) + 2 * Xor(a \div 2, b \div 2)

\* the inner loop of crc_16: n shifts of the 16-bit register
RECURSIVE CrcShift(_, _)
CrcShift(crc, n) ==
    IF n = 0 THEN crc
    ELSE CrcShift(IF crc >= 32768
                  THEN Xor((crc * 2) % 65536, 4129)
                  ELSE (crc * 2) % 65536,
                  n - 1)

\* the outer loop of crc_16 from byte i on (the register is a 16-bit value,
\* so the test next < 65536 always holds)
RECURSIVE CrcFrom(_, _, _)
CrcFrom(crc, data, i) ==
    IF i > Len(data) THEN crc
    ELSE LET next == CrcShift(Xor(crc, data[i] * 256), 8)
         IN  IF next < 65536 THEN CrcFrom(next, data, i + 1) ELSE 0

crc_16(data) == CrcFrom(0, data, 1)

\* ------------------------------------------------------- frame constants
MAX_PACKET_SIZE == 1056
MESSAGE_TYPE_SIZE == 4
CACK_SIZE == 16
PWAK_SIZE == 20
DCAK_SIZE == 16
SPAK_SIZE == 20
SACK_SIZE == 18
SNAK_SIZE == 16
EPAK_SIZE == 16
SCAK_SIZE == 48
\* GPAK_SIZE is used by build_GPAK_packet but defined nowhere in the sources:
\* either the number of bytes the function writes or the length it declares
GPAK_WRITTEN == 37
GPAK_SIZES == {GPAK_WRITTEN, SCAK_SIZE}

START_BYTES == <<18, 52>>
END_BYTES == <<86, 120>>

\* the 4-byte type tags, as character codes
\* requests, as message_type_match compares them
Request ==
  [ CONN |-> <<67, 79, 78, 78>>,
    PASS |-> <<80, 65, 83, 83>>,
    DCON |-> <<68, 67, 79, 78>>,
    STPW |-> <<83, 84, 80, 87>>,
    SEND |-> <<83, 69, 78, 68>>,
    SNOD |-> <<83, 78, 79, 68>>,
    EPAR |-> <<69, 80, 65, 82>>,
    SCAN |-> <<83, 67, 65, 78>>,
    GPKY |-> <<71, 80, 75, 89>> ]
\* acknowledgements, as the build functions write them
Ack ==
  [ CACK |-> <<67, 65, 67, 75>>,
    PWAK |-> <<80, 87, 65, 75>>,
    DCAK |-> <<68, 67, 65, 75>>,
    SPAK |-> <<83, 80, 65, 75>>,
    SACK |-> <<83, 65, 67, 75>>,
    SNAK |-> <<83, 78, 65, 75>>,
    EPAK |-> <<69, 80, 65, 75>>,
    SCAK |-> <<83, 67, 65, 75>>,
    GPAK |-> <<71, 80, 65, 75>> ]
\* the status payload of PWAK and SPAK
Status ==
  [ OKAY |-> <<79, 75, 65, 89>>,
    FAIL |-> <<70, 65, 73, 76>> ]

\* this node's address and its table of known peers (set by the radio side)
deviceID == 7
deviceIDList == [i \in 1..32 |-> IF i <= 2 THEN i + 1 ELSE 0]

message_type_match(buf, str, len) == \A i \in 1..len : buf[i] = str[i]

\* ------------------------------------------------------- 32-bit unsigned
\* a uint32 as <<high 16 bits, low 16 bits>>
U32(b0, b1, b2, b3) == <<b0 * 256 + b1, b2 * 256 + b3>>
Sub32(a, n) ==
    LET lo == a[2] - (n % 65536)
        hi == a[1] - (n \div 65536) - (IF lo < 0 THEN 1 ELSE 0)
    IN  <<(hi + 131072) % 65536, (lo + 65536) % 65536>>

\* --------------------------------------------------- packet-layer state
VARIABLES
    \* LoCommAPI.cpp globals
    computer_in_packet, computer_out_packet, device_out_packet,
    message_from_computer_flag, message_to_computer_flag, message_to_device_flag,
    password_entered_flag, set_password_flag,
    computer_out_size, device_out_size, computer_in_size,
    \* globals.h
    epochAtBoot, device_name,
    \* Serial: the bytes waiting to be read, and the writes made so far
    serial_rx, serial_tx,
    \* serialReadyToSendArray with rxMessageBuffer: inbound messages waiting
    \* to be forwarded to the computer
    rxReady,
    \* the messages addMessageToTxArray has accepted
    txArray,
    \* where the apiCode loop is
    pc,
    \* observation (not program state): the frames the computer has sent,
    \* and what handle_message_from_computer did with the last one it saw
    sent, handled

apiVars == <<computer_in_packet, computer_out_packet, device_out_packet,
             message_from_computer_flag, message_to_computer_flag,
             message_to_device_flag, password_entered_flag, set_password_flag,
             computer_out_size, device_out_size, computer_in_size,
             epochAtBoot, device_name, serial_rx, serial_tx, rxReady, txArray,
             pc, sent, handled>>

\* the node's state as one value, passed through the functions below
Api == [computer_in_packet |-> computer_in_packet,
        computer_out_packet |-> computer_out_packet,
        device_out_packet |-> device_out_packet,
        message_from_computer_flag |-> message_from_computer_flag,
        message_to_computer_flag |-> message_to_computer_flag,
        message_to_device_flag |-> message_to_device_flag,
        password_entered_flag |-> password_entered_flag,
        set_password_flag |-> set_password_flag,
        computer_out_size |-> computer_out_size,
        device_out_size |-> device_out_size,
        computer_in_size |-> computer_in_size,
        epochAtBoot |-> epochAtBoot, device_name |-> device_name,
        serial_rx |-> serial_rx, serial_tx |-> serial_tx,
        rxReady |-> rxReady, txArray |-> txArray,
        handled |-> handled, sec |-> Sec]

\* Serial.write(bytes) made by function `by`; req is the correlation tag of
\* the request then in computer_in_packet.  Writing no bytes sends nothing.
SerialWrite(m, by, bytes) ==
    IF Len(bytes) = 0 THEN m
    ELSE [m EXCEPT !.serial_tx = Append(@, [by |-> by, bytes |-> bytes,
                                             req |-> Slice(m.computer_in_packet, 8, 4)])]

\* ----------------------------------------------------- LoCommBuildPacket
\* start bytes, packet size, type, and the tag copied from computer_in_packet
AckHeader(m, size, type) ==
    PutAll(m.computer_out_packet, 0,
           START_BYTES \o <<(size \div 256) % 256, size % 256>> \o type
                       \o Slice(m.computer_in_packet, 8, 4))

\* the CRC of the n bytes from index 2, then the end bytes
AckClose(out, n) ==
    LET crc == crc_16(Slice(out, 2, n))
    IN  PutAll(out, n + 2, <<(crc \div 256) % 256, crc % 256>> \o END_BYTES)

build_CACK_packet(m) ==
    [m EXCEPT !.computer_out_packet = AckClose(AckHeader(m, CACK_SIZE, Ack.CACK), 10),
              !.computer_out_size = CACK_SIZE]

build_PWAK_packet(m) ==
    LET status == IF m.password_entered_flag THEN Status.OKAY ELSE Status.FAIL
    IN  [m EXCEPT !.computer_out_packet =
                      AckClose(PutAll(AckHeader(m, PWAK_SIZE, Ack.PWAK), 12, status), 14),
                  !.computer_out_size = PWAK_SIZE]

build_DCAK_packet(m) ==
    [m EXCEPT !.computer_out_packet = AckClose(AckHeader(m, DCAK_SIZE, Ack.DCAK), 10),
              !.computer_out_size = DCAK_SIZE]

build_SPAK_packet(m) ==
    LET status == IF m.set_password_flag THEN Status.OKAY ELSE Status.FAIL
    IN  [m EXCEPT !.computer_out_packet =
                      AckClose(PutAll(AckHeader(m, SPAK_SIZE, Ack.SPAK), 12, status), 14),
                  !.computer_out_size = SPAK_SIZE]

build_SACK_packet(m) ==
    LET chunk == Slice(m.computer_in_packet, 15, 2)
    IN  [m EXCEPT !.computer_out_packet =
                      AckClose(PutAll(AckHeader(m, SACK_SIZE, Ack.SACK), 12, chunk), 12),
                  !.computer_out_size = SACK_SIZE]

build_SNAK_packet(m) ==
    [m EXCEPT !.computer_out_packet = AckClose(AckHeader(m, SNAK_SIZE, Ack.SNAK), 10),
              !.computer_out_size = SNAK_SIZE]

build_EPAK_packet(m) ==
    [m EXCEPT !.computer_out_packet = AckClose(AckHeader(m, EPAK_SIZE, Ack.EPAK), 10),
              !.computer_out_size = EPAK_SIZE]

build_SCAK_packet(m) ==
    [m EXCEPT !.computer_out_packet =
                  AckClose(PutAll(AckHeader(m, SCAK_SIZE, Ack.SCAK), 12, deviceIDList), 42),
              !.computer_out_size = SCAK_SIZE]

\* the length field says SCAK_SIZE; the size to send is GPAK_SIZE
build_GPAK_packet(m, gpakSize) ==
    LET hdr == AckHeader(m, SCAK_SIZE, Ack.GPAK)
        key == sec_display_key(m.sec, ExportLen + 1)
        body == IF sec_isPaired(m.sec) /\ key.ret
                THEN PutAll(Put(hdr, 12, 255), 12, key.out)
                ELSE Put(hdr, 12, 0)
    IN  [m EXCEPT !.computer_out_packet = AckClose(body, 31),
                  !.computer_out_size = gpakSize]

\* ------------------------------------------------------------ LoCommAPI
\* the 16-bit length field of the frame in computer_in_packet
PacketSize(m) == Get(m.computer_in_packet, 2) * 256 + Get(m.computer_in_packet, 3)

\* the reply is ready and the request is done with
Replied(m) == [m EXCEPT !.message_to_computer_flag = TRUE,
                        !.message_from_computer_flag = FALSE]

\* the password carried by a PASS or STPW frame, as the C string the handler builds
\* uint16_t password_size = declared length; password_size -= 16;
password_size(m) == (PacketSize(m) + 65536 - 16) % 65536

InputPassword(m) ==
    CStr(Slice(m.computer_in_packet, 12, password_size(m)))

handle_PASS_packet(m, f) ==
    LET r == sec_login(m.sec, InputPassword(m), f)
    IN  Replied(build_PWAK_packet([m EXCEPT !.sec = r.s,
                                            !.password_entered_flag = r.ret]))

handle_DCON_packet(m) ==
    Replied(build_DCAK_packet([m EXCEPT !.sec = sec_logout(m.sec),
                                        !.set_password_flag = FALSE,
                                        !.password_entered_flag = FALSE]))

handle_STPW_packet(m, newSalt, f) ==
    LET r == sec_setInitialPassword(m.sec, InputPassword(m), newSalt, f)
    IN  Replied(build_SPAK_packet([m EXCEPT !.set_password_flag = TRUE,
                                            !.sec = r.s]))

\* uptime: millis() / 1000
handle_CONN_packet(m, uptime) ==
    LET p == m.computer_in_packet
        epoch == U32(Get(p, 12), Get(p, 13), Get(p, 14), Get(p, 15))
    IN  Replied(build_CACK_packet([m EXCEPT !.epochAtBoot = Sub32(epoch, uptime)]))

\* uint16_t packet_size = declared length; packet_size++;
relayed_size(m) == (PacketSize(m) + 1) % 65536

handle_SEND_packet(m) ==
    LET p == m.computer_in_packet
        packet_size == relayed_size(m)
        d1 == PutAll(m.device_out_packet, 0, Slice(p, 0, 12))
        d2 == Put(d1, 12, deviceID)
        d3 == PutAll(d2, 13, Slice(p, 12, packet_size - 13))
        d4 == PutAll(d3, 2, <<(packet_size \div 256) % 256, packet_size % 256>>)
        crc == crc_16(Slice(d4, 2, packet_size - 6))
        d5 == PutAll(d4, packet_size - 4, <<(crc \div 256) % 256, crc % 256>>)
    IN  Replied([m EXCEPT !.device_out_packet = d5,
                          !.message_to_device_flag = TRUE,
                          !.device_out_size = packet_size])

handle_SNOD_packet(m) ==
    Replied(build_SNAK_packet([m EXCEPT !.device_name =
                                            Slice(m.computer_in_packet, 12, 32)]))

\* the result of sec_log_key is not looked at
handle_EPAR_packet(m, f) ==
    LET key == CStr(Slice(m.computer_in_packet, 12, ExportLen))
    IN  Replied(build_EPAK_packet([m EXCEPT !.sec = sec_log_key(m.sec, key, f).s]))

handle_SCAN_packet(m) == Replied(build_SCAK_packet(m))

handle_GPKY_packet(m, gpakSize) == Replied(build_GPAK_packet(m, gpakSize))

\* What the handlers draw from outside the frame, each a set of the values
\* possible: the salt the RNG gives, the uptime, GPAK_SIZE, and the
\* primitive that fails (if any)
Draw(newSalts, uptimes, gpakSizes, faults) ==
    [newSalts |-> newSalts, uptimes |-> uptimes, gpakSizes |-> gpakSizes,
     faults |-> faults]

\* the dispatcher writing nothing for an unknown tag
Dispatch_DropsUnknown(m, D) ==
    LET message_type == Slice(m.computer_in_packet, 4, MESSAGE_TYPE_SIZE)
        is(str) == message_type_match(message_type, str, MESSAGE_TYPE_SIZE)
        did(name, m2) == [m2 EXCEPT !.handled.handler = name]
    IN  IF is(Request.CONN) THEN {did("CONN", handle_CONN_packet(m, u)) : u \in D.uptimes}
        ELSE IF is(Request.PASS) THEN {did("PASS", handle_PASS_packet(m, f)) : f \in D.faults}
        ELSE IF is(Request.DCON) THEN {did("DCON", handle_DCON_packet(m))}
        ELSE IF is(Request.STPW) THEN {did("STPW", handle_STPW_packet(m, n, f)) :
                                  n \in D.newSalts, f \in D.faults}
        ELSE IF is(Request.SEND) THEN {did("SEND", handle_SEND_packet(m))}
        ELSE IF is(Request.SNOD) THEN {did("SNOD", handle_SNOD_packet(m))}
        ELSE IF is(Request.EPAR) THEN {did("EPAR", handle_EPAR_packet(m, f)) : f \in D.faults}
        ELSE IF is(Request.SCAN) THEN {did("SCAN", handle_SCAN_packet(m))}
        ELSE IF is(Request.GPKY) THEN {did("GPKY", handle_GPKY_packet(m, g)) : g \in D.gpakSizes}
        ELSE {did("unknown", m)}

\* the possible outcomes of the handler chosen by the type tag; an unknown
\* tag writes "FAIL" and leaves every flag as it is
Dispatch(m, D) ==
    LET message_type == Slice(m.computer_in_packet, 4, MESSAGE_TYPE_SIZE)
        is(str) == message_type_match(message_type, str, MESSAGE_TYPE_SIZE)
        did(name, m2) == [m2 EXCEPT !.handled.handler = name]
    IN  IF is(Request.CONN) THEN {did("CONN", handle_CONN_packet(m, u)) : u \in D.uptimes}
        ELSE IF is(Request.PASS) THEN {did("PASS", handle_PASS_packet(m, f)) : f \in D.faults}
        ELSE IF is(Request.DCON) THEN {did("DCON", handle_DCON_packet(m))}
        ELSE IF is(Request.STPW) THEN {did("STPW", handle_STPW_packet(m, n, f)) :
                                  n \in D.newSalts, f \in D.faults}
        ELSE IF is(Request.SEND) THEN {did("SEND", handle_SEND_packet(m))}
        ELSE IF is(Request.SNOD) THEN {did("SNOD", handle_SNOD_packet(m))}
        ELSE IF is(Request.EPAR) THEN {did("EPAR", handle_EPAR_packet(m, f)) : f \in D.faults}
        ELSE IF is(Request.SCAN) THEN {did("SCAN", handle_SCAN_packet(m))}
        ELSE IF is(Request.GPKY) THEN {did("GPKY", handle_GPKY_packet(m, g)) : g \in D.gpakSizes}
        ELSE {did("unknown", SerialWrite(m, "handle_message_from_computer", Status.FAIL))}

\* the frame is dropped
Reject(m) == [m EXCEPT !.message_from_computer_flag = FALSE, !.computer_in_size = 0]

\* The checks on a frame of `size` received bytes at the start of p: the set
\* of verdicts the checks can give.  With a declared length below 6 the CRC
\* is computed over (size_t)(packet_size - 6) bytes, far beyond the buffer,
\* and the checksum compared is arbitrary; below 2 the end bytes are read
\* before the buffer as well.
Validate(p, size) ==
    LET packet_size == Get(p, 2) * 256 + Get(p, 3)
        crc == crc_16(Slice(p, 2, packet_size - 6))
        endOk == ~(Get(p, packet_size - 2) # 86 /\ Get(p, packet_size - 1) # 120)
    IN  IF ~(Get(p, 0) = 18 /\ Get(p, 1) = 52) THEN {FALSE}
        ELSE IF packet_size # size THEN {FALSE}
        ELSE IF packet_size < 2 THEN {FALSE, TRUE}
        ELSE IF packet_size < 6 THEN {FALSE, endOk}
        ELSE IF (crc \div 256) % 256 # Get(p, packet_size - 4)
                  \/ crc % 256 # Get(p, packet_size - 3)
             THEN {FALSE}
        ELSE {endOk}

\* the possible outcomes of handle_message_from_computer
handle_message_from_computer(m, D) ==
    LET seen == [m EXCEPT !.handled =
                     [packet |-> Slice(m.computer_in_packet, 0, m.computer_in_size),
                      handler |-> "none"]]
    IN  UNION {IF ok THEN Dispatch(seen, D) ELSE {Reject(seen)} :
                  ok \in Validate(m.computer_in_packet, m.computer_in_size)}

recive_packet_from_computer(m) ==
    IF Len(m.serial_rx) = 0 THEN m
    ELSE LET n == IF Len(m.serial_rx) < MAX_PACKET_SIZE THEN Len(m.serial_rx)
                  ELSE MAX_PACKET_SIZE
         IN  [m EXCEPT !.computer_in_packet = PutAll(@, 0, SubSeq(m.serial_rx, 1, n)),
                       !.serial_rx = SubSeq(@, n + 1, Len(@)),
                       !.message_from_computer_flag = TRUE,
                       !.computer_in_size = n]

handle_message_to_computer(m) ==
    LET w == SerialWrite(m, "handle_message_to_computer",
                         Slice(m.computer_out_packet, 0, m.computer_out_size))
    IN  [w EXCEPT !.message_to_computer_flag = FALSE, !.computer_out_size = 0]

\* accepted: what addMessageToTxArray returns
handle_message_to_device(m, accepted) ==
    IF accepted
    THEN LET q == [m EXCEPT !.txArray =
                       Append(@, [bytes |-> Slice(m.device_out_packet, 0, m.device_out_size),
                                  destinationID |-> Get(m.device_out_packet, 13)])]
         IN  [build_SACK_packet(q) EXCEPT !.message_to_device_flag = FALSE,
                                          !.device_out_size = 0]
    ELSE m

\* SimpleArraySet::remove (index counted from 0): the last unit takes the
\* place of the one removed
SimpleArraySet_remove(arr, index) ==
    LET length == Len(arr) IN
    IF index >= length THEN arr
    ELSE IF index = length - 1 THEN SubSeq(arr, 1, length - 1)
    ELSE [SubSeq(arr, 1, length - 1) EXCEPT ![index + 1] = arr[length]]

\* serialReadyToSendArray.get(0) is written, then remove(0)
handle_message_from_device(m) ==
    LET w == SerialWrite(m, "handle_message_from_device", m.rxReady[1])
    IN  [w EXCEPT !.rxReady = SimpleArraySet_remove(@, 0), !.device_out_size = 0]

\* ------------------------------------------------------------ the inputs
BufferSizes == {ExportLen, ExportLen + 1}
RandomKeys == {KeyBytes(k) : k \in 1..NumKeys}

\* str with the character at position i replaced by c
WithChar(str, i, c) == [j \in 1..Len(str) |-> IF j = i THEN c ELSE str[j]]
GoodStrings == {EncodeKey(k) : k \in RandomKeys}
\* what sec_log_key may be given: an exported key; one with a space (no
\* character of the alphabet) in the first block, in a later block, and at
\* the very end; one a character short and one a character long; and
\* "#####" repeated, every block of which is 85^5 - 1, above 2^32 - 1
ImportStrings ==
    LET good == EncodeKey(KeyBytes(1)) IN
    GoodStrings
    \cup {WithChar(good, i, 32) : i \in {1, 6, ExportLen}}
    \cup {SubSeq(good, 1, ExportLen - 1), good \o <<48>>}
    \cup {[j \in 1..ExportLen |-> 35]}

\* device-to-device traffic: an empty and a two-byte message and the IVs the
\* RNG can draw
Plaintexts == {<<>>, <<104, 105>>}
D2D_IVS == {1, 2}
Malformed(str) == Len(str) # ExportLen \/ \E i \in 1..Len(str) : ~InAlphabet(str[i])

\* ------------------------------------------------- observing the calls
\* hist: the most recent calls, kept while they follow one of the call
\* sequences below.  Each call is recorded with its argument, its return
\* value, its output, the fields of the state it changed, and whether the
\* node was paired (and with which key) when it was made.
Patterns == { <<"generate_key", "logout", "login", "display_key">>,
              <<"changePassword", "login", "display_key">>,
              <<"setInitialPassword", "login">>,
              <<"deinit", "init", "login", "display_key">> }

IsPrefix(a, b) == Len(a) <= Len(b) /\ \A i \in 1..Len(a) : a[i] = b[i]

\* the export string of the key wrapped in the persisted blob
HeldKey(s) ==
    IF s.g_is_paired /\ isKey(s.storage, NVM_KEY_D2D_KEY)
    THEN EncodeKey(s.storage[NVM_KEY_D2D_KEY][4]) ELSE NoOut

Fields == {"g_is_initialized", "g_is_logged_in", "g_is_paired", "g_password_hash",
           "g_password_salt", "g_encrypted_d2d_key", "g_decrypted_d2d_key",
           "g_wrapping_key", "storage"}
Changed(s, t) == {x \in Fields : s[x] # t[x]}

\* the passwords whose salted hash equals the stored hash
Authentic(s) ==
    {p \in Passwords : sec_hash_password(p, s.g_password_salt) = s.g_password_hash}
\* the passwords sec_login accepts
CanLogin(s) == {p \in Passwords : sec_login(s, p, NoFault).ret}

Call(op, arg, r) ==
    [op |-> op, arg |-> arg, ret |-> r.ret, out |-> r.out,
     changed |-> Changed(Sec, r.s), was_logged_in |-> g_is_logged_in,
     paired |-> g_is_paired, held |-> HeldKey(Sec),
     authentic |-> Authentic(Sec), can_login |-> CanLogin(Sec)]

Observe(c) ==
    LET ops == [i \in 1..(Len(hist) + 1) |-> IF i <= Len(hist) THEN hist[i].op ELSE c.op]
    IN  IF \E pat \in Patterns : IsPrefix(ops, pat) THEN Append(hist, c) ELSE <<c>>

last == hist[Len(hist)]

\* the variables take the state a call returns
Becomes(s) ==
    /\ g_is_initialized' = s.g_is_initialized
    /\ g_is_logged_in' = s.g_is_logged_in
    /\ g_is_paired' = s.g_is_paired
    /\ g_password_hash' = s.g_password_hash
    /\ g_password_salt' = s.g_password_salt
    /\ g_encrypted_d2d_key' = s.g_encrypted_d2d_key
    /\ g_decrypted_d2d_key' = s.g_decrypted_d2d_key
    /\ g_wrapping_key' = s.g_wrapping_key
    /\ storage' = s.storage

\* ------------------------------------------------------ DefraggingBuffer.h
\* DefraggingBuffer<SIZE, MAX_ALLOCATIONS> (2048 and 8 in the program).  The
\* three uint16_t tables are consecutive members; meta is their storage in
\* declaration order, so an index one past the end of a table denotes the
\* first element of the next one.
Layout ==
    [allocationStartPositions |-> 0,
     allocationSizes |-> MAX_ALLOCATIONS,
     openSpaceBetweenAllocations |-> 2 * MAX_ALLOCATIONS,
     words |-> 3 * MAX_ALLOCATIONS + 1]
\* the failure value 0xFFFFFFFF of malloc, which is no offset of the buffer
MallocFailed == -1

\* array[i] for one of the three tables of b
At(b, array, i) == b.meta[Layout[array] + i]

\* init() on a zero-initialized object (a global, or the value-initialized
\* testBuffer of runTests)
DefraggingBuffer_init ==
    [numAllocations |-> 0,
     meta |-> [x \in 0..(Layout.words - 1) |-> IF x = Layout.openSpaceBetweenAllocations THEN SIZE ELSE 0]]

\* for (i = arraySize-1; i >= position; i--) array[i+1] = array[i];
\* array[position] = data;
arrayInsert(meta, array, arraySize, position, data) ==
    [x \in DOMAIN meta |->
        IF x = array + position THEN data
        ELSE IF x > array + position /\ x <= array + arraySize THEN meta[x - 1]
        ELSE meta[x]]

\* for (i = position; i < arraySize; i++) array[i] = array[i+1];
arrayPop(meta, array, arraySize, position) ==
    [x \in DOMAIN meta |->
        IF x >= array + position /\ x < array + arraySize THEN meta[x + 1]
        ELSE meta[x]]

\* the body of the for loop of malloc for one i: it returns in either case,
\* so the loop never reaches i = 1
malloc_body(b, size, i) ==
    IF At(b, "openSpaceBetweenAllocations", i) >= size
    THEN LET ret == IF i = 0 THEN 0
                    ELSE (At(b, "allocationStartPositions", i - 1) + At(b, "allocationSizes", i - 1)) % 65536
             m1 == arrayInsert(b.meta, Layout.allocationStartPositions, b.numAllocations, i, ret)
             m2 == arrayInsert(m1, Layout.allocationSizes, b.numAllocations, i, size)
             m3 == arrayInsert(m2, Layout.openSpaceBetweenAllocations, b.numAllocations + 1, i, 0)
         IN  [b |-> [numAllocations |-> b.numAllocations + 1, meta |-> m3], ret |-> ret]
    ELSE [b |-> b, ret |-> MallocFailed]

DefraggingBuffer_malloc(b, size) ==
    IF size > SIZE THEN [b |-> b, ret |-> MallocFailed]
    ELSE IF b.numAllocations = MAX_ALLOCATIONS THEN [b |-> b, ret |-> MallocFailed]
    ELSE malloc_body(b, size, 0)

\* free(location).  With MAX_ALLOCATIONS allocations live the third arrayPop
\* stores one element past allocationStartPositions; lands says whether
\* that store reaches the next member, allocationSizes[0].
DefraggingBuffer_free(b, location, lands) ==
    LET n == b.numAllocations
        found == {i \in 0..(n - 1) : At(b, "allocationStartPositions", i) = location}
    IN  IF found = {} THEN [b |-> b, ret |-> FALSE]
        ELSE LET i == CHOOSE j \in found : \A k \in found : j <= k
                 newSize == (At(b, "openSpaceBetweenAllocations", i)
                             + At(b, "openSpaceBetweenAllocations", i + 1)
                             + At(b, "allocationSizes", i)) % 65536
                 m1 == arrayPop(b.meta, Layout.openSpaceBetweenAllocations, n, i)
                 m2 == arrayPop(m1, Layout.allocationSizes, n, i)
                 m3 == arrayPop(m2, Layout.allocationStartPositions, n + 1, i)
                 m4 == IF n = MAX_ALLOCATIONS /\ ~lands
                       THEN [m3 EXCEPT ![Layout.allocationSizes] = m2[Layout.allocationSizes]] ELSE m3
                 m5 == [m4 EXCEPT ![Layout.openSpaceBetweenAllocations + i] = newSize]
             IN  [b |-> [numAllocations |-> n - 1, meta |-> m5], ret |-> TRUE]

\* ------------------------------------------------------- CyclicArrayList.h
\* CyclicArrayList<uint8_t, LIST_SIZE>; buffer is indexed from 0.  touched
\* collects the indices of buffer that a call reads or writes.
CyclicArrayList_init ==
    [buffer |-> [x \in 0..(LIST_SIZE - 1) |-> 0],
     bufferFull |-> FALSE, bufferEnd |-> 0, bufferStart |-> 0]

spaceLeft(l) ==
    IF l.bufferFull THEN 0
    ELSE IF l.bufferStart = l.bufferEnd THEN LIST_SIZE
    ELSE IF l.bufferStart < l.bufferEnd THEN l.bufferStart + (LIST_SIZE - l.bufferEnd)
    ELSE l.bufferStart - l.bufferEnd

CyclicArrayList_size(l) == LIST_SIZE - spaceLeft(l)

\* memcpy(&buffer[at], &src[from], count) for the indices inside the buffer
memcpy_in(buffer, at, src, from, count) ==
    [x \in DOMAIN buffer |->
        IF x >= at /\ x < at + count THEN src[from + (x - at) + 1] ELSE buffer[x]]

pushBack(l, src) ==
    LET size == Len(src) IN
    IF size > spaceLeft(l) THEN [l |-> l, ret |-> FALSE, touched |-> {}]
    ELSE IF LIST_SIZE - l.bufferEnd < size
    THEN LET head == LIST_SIZE - l.bufferEnd
             b1 == memcpy_in(l.buffer, l.bufferEnd, src, 0, head)
             b2 == memcpy_in(b1, 0, src, 0, size - head)
         IN  [l |-> [l EXCEPT !.buffer = b2, !.bufferEnd = size - head],
              ret |-> TRUE,
              touched |-> (l.bufferEnd..(l.bufferEnd + head - 1)) \cup (0..(size - head - 1))]
    ELSE [l |-> [l EXCEPT !.buffer = memcpy_in(@, l.bufferEnd, src, 0, size),
                          !.bufferEnd = @ + size],
          ret |-> TRUE, touched |-> (l.bufferEnd..(l.bufferEnd + size - 1))]

\* buffer[bufferEnd++] = value; a store at index LIST_SIZE is outside the
\* array: the member behind it is bufferFull, and lands says whether the
\* store reaches it
pushBackSingle(l, value, lands) ==
    IF spaceLeft(l) = 0 THEN [l |-> l, ret |-> FALSE, touched |-> {}]
    ELSE LET end == l.bufferEnd + 1 IN
         [l |-> [l EXCEPT !.buffer = [x \in DOMAIN @ |-> IF x = l.bufferEnd THEN value ELSE @[x]],
                          !.bufferFull = IF l.bufferEnd = LIST_SIZE /\ lands THEN value # 0 ELSE @,
                          !.bufferEnd = IF end = LIST_SIZE THEN 0 ELSE end],
          ret |-> TRUE, touched |-> {l.bufferEnd}]

\* the bytes peakFront copies to dst
peakFront(l, s) ==
    IF s > CyclicArrayList_size(l) THEN [ret |-> FALSE, dst |-> <<>>, touched |-> {}]
    ELSE LET readEnd == (l.bufferStart + s) % 65536
             head == LIST_SIZE - l.bufferStart
         IN  IF readEnd > LIST_SIZE
             THEN [ret |-> TRUE,
                   dst |-> [k \in 1..s |-> IF k <= head THEN l.buffer[l.bufferStart + k - 1]
                                           ELSE l.buffer[k - head - 1]],
                   touched |-> (l.bufferStart..(l.bufferStart + head - 1)) \cup (0..(s - head - 1))]
             ELSE [ret |-> TRUE,
                   dst |-> [k \in 1..s |-> l.buffer[l.bufferStart + k - 1]],
                   touched |-> (l.bufferStart..(l.bufferStart + s - 1))]

dropFront(l, size) ==
    IF size = 0 THEN l
    ELSE IF size >= CyclicArrayList_size(l) THEN [l EXCEPT !.bufferStart = 0, !.bufferEnd = 0]
    ELSE LET start == l.bufferStart + size IN
         [l EXCEPT !.bufferStart = IF start >= LIST_SIZE THEN start - LIST_SIZE ELSE start]

\* the two containers, the last call made on each (ghost), the elements
\* pushed and not yet dropped, oldest first (ghost), and the number of calls
VARIABLES dbuf, dcall, clist, ccall, fifo, calls
structVars == <<dbuf, dcall, clist, ccall, fifo, calls>>

\* ---------------------------------------------------------- the two tasks
\* The computer-facing task (apiCode) and the device-facing task call into
\* the security module without taking a lock.  ctask and dtask are the
\* statement each task has reached inside sec_logout and inside
\* sec_encryptD2DMessage / sec_decryptD2DMessage; d2d_ran is what the
\* device-facing task saw when mbedtls_gcm_setkey loaded the group key.
VARIABLES ctask, dtask, d2d_ran
\* ScopedLock.h: the flag *lock, the task inside the critical section of
\* spinLock (0: none), and per task its place in ScopedLock and its local
\* variable success
VARIABLES lock, spinLock, lpc, success
lockVars == <<lock, spinLock, lpc, success>>
raceVars == <<ctask, dtask, d2d_ran, lockVars, structVars>>

\* ------------------------------------------------------------ the calls
SetInitialPassword(password, newSalt, f) ==
    \E r \in {sec_setInitialPassword(Sec, password, newSalt, f)} :
        /\ Becomes(r.s)
        /\ hist' = Observe(Call("setInitialPassword", password, r))
        /\ UNCHANGED <<apiVars, raceVars>>

Login(password, f) ==
    \E r \in {sec_login(Sec, password, f)} :
        /\ Becomes(r.s)
        /\ hist' = Observe(Call("login", password, r))
        /\ UNCHANGED <<apiVars, raceVars>>

Logout ==
    \E r \in {Result(sec_logout(Sec), TRUE, NoOut)} :
        /\ Becomes(r.s)
        /\ hist' = Observe(Call("logout", 0, r))
        /\ UNCHANGED <<apiVars, raceVars>>

ChangePassword(oldPassword, newPassword, newSalt, f) ==
    \E r \in {sec_changePassword(Sec, oldPassword, newPassword, newSalt, f)} :
        /\ Becomes(r.s)
        /\ hist' = Observe(Call("changePassword", <<oldPassword, newPassword>>, r))
        /\ UNCHANGED <<apiVars, raceVars>>

GenerateKey(bufferSize, newKey, f) ==
    \E r \in {sec_generate_key(Sec, bufferSize, newKey, f)} :
        /\ Becomes(r.s)
        /\ hist' = Observe(Call("generate_key", bufferSize, r))
        /\ UNCHANGED <<apiVars, raceVars>>

LogKey(str, f) ==
    \E r \in {sec_log_key(Sec, str, f)} :
        /\ Becomes(r.s)
        /\ hist' = Observe(Call("log_key", str, r))
        /\ UNCHANGED <<apiVars, raceVars>>

DisplayKey(bufferSize) ==
    \E r \in {sec_display_key(Sec, bufferSize)} :
        /\ Becomes(r.s)
        /\ hist' = Observe(Call("display_key", bufferSize, r))
        /\ UNCHANGED <<apiVars, raceVars>>

ResetPairing ==
    \E r \in {Result(sec_resetPairing(Sec), TRUE, NoOut)} :
        /\ Becomes(r.s)
        /\ hist' = Observe(Call("resetPairing", 0, r))
        /\ UNCHANGED <<apiVars, raceVars>>

EncryptD2DMessage(plaintext, bufferSize, iv, f) ==
    \E r \in {sec_encryptD2DMessage(Sec, plaintext, bufferSize, iv, f)} :
        /\ Becomes(r.s)
        /\ hist' = Observe(Call("encryptD2DMessage", plaintext, r))
        /\ UNCHANGED <<apiVars, raceVars>>

DecryptD2DMessage(msg, bufferSize, f) ==
    \E r \in {sec_decryptD2DMessage(Sec, msg, bufferSize, f)} :
        /\ Becomes(r.s)
        /\ hist' = Observe(Call("decryptD2DMessage", msg, r))
        /\ UNCHANGED <<apiVars, raceVars>>

\* the node restarts: RAM is lost, the Preferences store is kept, and sec_init
\* runs again (storage.begin succeeding)
Restart ==
    \E n \in Salts : \E r \in {Result(sec_init(storage, n), TRUE, NoOut)} :
        /\ Becomes(r.s)
        /\ hist' = Observe(Call("init", 0, r))
        /\ UNCHANGED <<apiVars, raceVars>>

\* sec_deinit on a running node
Deinit ==
    /\ g_is_initialized
    /\ \E r \in {Result(sec_deinit(Sec), TRUE, NoOut)} :
        /\ Becomes(r.s)
        /\ hist' = Observe(Call("deinit", 0, r))
        /\ UNCHANGED <<apiVars, raceVars>>

vars == <<secVars, apiVars, raceVars, hist>>

\* the RNG never repeats the salt in use
FreshSalts == Salts \ {g_password_salt}

\* ------------------------------------------------- the apiCode service loop
ApiBecomes(m) ==
    /\ Becomes(m.sec)
    /\ computer_in_packet' = m.computer_in_packet
    /\ computer_out_packet' = m.computer_out_packet
    /\ device_out_packet' = m.device_out_packet
    /\ message_from_computer_flag' = m.message_from_computer_flag
    /\ message_to_computer_flag' = m.message_to_computer_flag
    /\ message_to_device_flag' = m.message_to_device_flag
    /\ password_entered_flag' = m.password_entered_flag
    /\ set_password_flag' = m.set_password_flag
    /\ computer_out_size' = m.computer_out_size
    /\ device_out_size' = m.device_out_size
    /\ computer_in_size' = m.computer_in_size
    /\ epochAtBoot' = m.epochAtBoot
    /\ device_name' = m.device_name
    /\ serial_rx' = m.serial_rx
    /\ serial_tx' = m.serial_tx
    /\ rxReady' = m.rxReady
    /\ txArray' = m.txArray
    /\ handled' = m.handled

\* the loop is followed until MaxWrites writes have been made to Serial
Running == Len(serial_tx) < MaxWrites

\* if(serialReadyToSendArray.size() > 0) handle_message_from_device();
FromDevice ==
    /\ pc = "from_device" /\ Running
    /\ \E m \in {IF Len(rxReady) > 0 THEN handle_message_from_device(Api) ELSE Api} :
          ApiBecomes(m)
    /\ pc' = "recive"
    /\ UNCHANGED <<sent, hist, raceVars>>

\* recive_packet_from_computer();
Recive ==
    /\ pc = "recive" /\ Running
    /\ \E m \in {recive_packet_from_computer(Api)} : ApiBecomes(m)
    /\ pc' = "from_computer"
    /\ UNCHANGED <<sent, hist, raceVars>>

\* if(message_from_computer_flag) handle_message_from_computer();
FromComputer(D) ==
    /\ pc = "from_computer" /\ Running
    /\ \E m \in (IF message_from_computer_flag
                  THEN handle_message_from_computer(Api, D) ELSE {Api}) :
          ApiBecomes(m)
    /\ pc' = "to_device"
    /\ UNCHANGED <<sent, hist, raceVars>>

\* if(message_to_device_flag) handle_message_to_device();
ToDevice(accepted) ==
    /\ pc = "to_device" /\ Running
    /\ \E m \in {IF message_to_device_flag
                  THEN handle_message_to_device(Api, accepted) ELSE Api} :
          ApiBecomes(m)
    /\ pc' = "to_computer"
    /\ UNCHANGED <<sent, hist, raceVars>>

\* if(message_to_computer_flag) handle_message_to_computer();
ToComputer ==
    /\ pc = "to_computer" /\ Running
    /\ \E m \in {IF message_to_computer_flag
                  THEN handle_message_to_computer(Api) ELSE Api} :
          ApiBecomes(m)
    /\ pc' = "from_device"
    /\ UNCHANGED <<sent, hist, raceVars>>

\* ------------------------------------------------------- the environment
\* a frame as the computer builds it
Frame(type, tag, payload) ==
    LET len  == 16 + Len(payload)
        body == <<(len \div 256) % 256, len % 256>> \o type \o tag \o payload
        crc  == crc_16(body)
    IN  START_BYTES \o body \o <<(crc \div 256) % 256, crc % 256>> \o END_BYTES

\* the correlation tag of the n-th request
Tag(n) == <<0, 0, 0, n>>

Uptimes == {1, 300}
Payload == <<0, 1, 0, 1, 104, 105>>
UnknownType == <<90, 90, 90, 90>>

\* what the computer may send as its n-th frame: the well-formed requests,
\* one or two of every type; a PASS request damaged in one place (one byte
\* of the start marker, the length, the body, the checksum or the end
\* marker changed in its lowest bit, or a byte lost or added); one with
\* both end-marker bytes wrong; and twelve bytes, fewer than the sixteen of
\* a frame without payload (a sequence made like a frame but with no
\* correlation tag, and the first twelve bytes of a well-formed request)
Frames(n) ==
    LET tag == Tag(n)
        Epoch == <<0, 0, 1, 0>>
        NodeName == [i \in 1..32 |-> IF i = 1 THEN 110 ELSE IF i = 2 THEN 49 ELSE 0]
        Requests ==
            {Frame(Request.CONN, tag, Epoch), Frame(Request.DCON, tag, <<>>),
             Frame(Request.SEND, tag, Payload), Frame(Request.SNOD, tag, NodeName),
             Frame(Request.SCAN, tag, <<>>), Frame(Request.GPKY, tag, <<>>),
             Frame(UnknownType, tag, <<>>),
             Frame(Request.EPAR, tag, EncodeKey(KeyBytes(1))),
             Frame(Request.EPAR, tag, WithChar(EncodeKey(KeyBytes(1)), 1, 32))}
            \cup {Frame(Request.PASS, tag, p) : p \in Passwords}
            \cup {Frame(Request.STPW, tag, Pw(NumPasswords))}
        pass == Frame(Request.PASS, tag, DefaultPassword)
        len == Len(pass)
        Corrupt(frame, i) == WithChar(frame, i + 1, Xor(frame[i + 1], 1))
        Damaged ==
            {Corrupt(pass, i) : i \in {0, 1, 3, 8, len - 4, len - 3, len - 2, len - 1}}
            \cup {SubSeq(pass, 1, len - 1), Append(pass, 0)}
        BothEndBytesWrong == Corrupt(Corrupt(pass, len - 2), len - 1)
        body == <<0, 12>> \o Request.PASS
        crc == crc_16(body)
        ShortFrame == START_BYTES \o body \o <<(crc \div 256) % 256, crc % 256>> \o END_BYTES
    IN  Requests \cup Damaged \cup {BothEndBytesWrong} \cup {ShortFrame, SubSeq(pass, 1, 12)}

\* each with the verdict the node's checks give on it
FrameTable ==
    [n \in 1..MaxRequests |->
        {[frame |-> fr, valid |-> Validate(fr, Len(fr)) = {TRUE}] : fr \in Frames(n)}]

\* the computer sends a frame once the previous one has been read
ComputerSends ==
    /\ Len(sent) < MaxRequests
    /\ serial_rx = <<>>
    /\ \E fr \in FrameTable[Len(sent) + 1] :
          /\ serial_rx' = fr.frame
          /\ sent' = Append(sent, fr)
    /\ UNCHANGED <<secVars, computer_in_packet, computer_out_packet, device_out_packet,
                   message_from_computer_flag, message_to_computer_flag,
                   message_to_device_flag, password_entered_flag, set_password_flag,
                   computer_out_size, device_out_size, computer_in_size,
                   epochAtBoot, device_name, serial_tx, rxReady, txArray, handled,
                   pc, hist, raceVars>>

\* the k-th message received from the device channel
InboundMessage(k) == Frame(Request.SEND, <<0, 0, 0, 9>>, <<3, 103 + k>>)
Forwarded == {i \in DOMAIN serial_tx : serial_tx[i].by = "handle_message_from_device"}

\* the radio side queues a received message for the computer, max in all
DeviceQueues(max) ==
    /\ Cardinality(Forwarded) + Len(rxReady) < max
    /\ rxReady' = Append(rxReady, InboundMessage(Cardinality(Forwarded) + Len(rxReady) + 1))
    /\ UNCHANGED <<secVars, computer_in_packet, computer_out_packet, device_out_packet,
                   message_from_computer_flag, message_to_computer_flag,
                   message_to_device_flag, password_entered_flag, set_password_flag,
                   computer_out_size, device_out_size, computer_in_size,
                   epochAtBoot, device_name, serial_rx, serial_tx, txArray, handled>>
    /\ UNCHANGED <<pc, sent, hist, raceVars>>

DeviceDelivers == DeviceQueues(MaxInbound)

\* the node after boot, the dispatcher idle
ApiInit ==
    /\ computer_in_packet = <<>> /\ computer_out_packet = <<>> /\ device_out_packet = <<>>
    /\ message_from_computer_flag = FALSE /\ message_to_computer_flag = FALSE
    /\ message_to_device_flag = FALSE
    /\ password_entered_flag = FALSE /\ set_password_flag = FALSE
    /\ computer_out_size = 0 /\ device_out_size = 0 /\ computer_in_size = 0
    /\ epochAtBoot = <<0, 0>>
    /\ device_name = [i \in 1..32 |-> 0]
    /\ serial_rx = <<>> /\ serial_tx = <<>>
    /\ rxReady = <<>> /\ txArray = <<>>
    /\ pc = "from_device"
    /\ sent = <<>>
    /\ handled = [packet |-> <<>>, handler |-> "none"]

\* the state after sec_init on an empty store
Init ==
    /\ \E newSalt \in Salts : \E s \in {sec_init(EmptyStorage, newSalt)} :
          /\ g_is_initialized = s.g_is_initialized
          /\ g_is_logged_in = s.g_is_logged_in
          /\ g_is_paired = s.g_is_paired
          /\ g_password_hash = s.g_password_hash
          /\ g_password_salt = s.g_password_salt
          /\ g_encrypted_d2d_key = s.g_encrypted_d2d_key
          /\ g_decrypted_d2d_key = s.g_decrypted_d2d_key
          /\ g_wrapping_key = s.g_wrapping_key
          /\ storage = s.storage
    /\ hist = << [op |-> "init", arg |-> 0, ret |-> TRUE, out |-> NoOut,
                  changed |-> Fields, was_logged_in |-> FALSE,
                  paired |-> FALSE, held |-> NoOut,
                  authentic |-> {}, can_login |-> {}] >>
    /\ ApiInit
    /\ ctask = "idle" /\ dtask = "idle"
    /\ d2d_ran = [logged_in |-> FALSE, key |-> Zero16]
    /\ lock = FALSE /\ spinLock = 0
    /\ lpc = [t \in 1..NumTasks |-> "outside"]
    /\ success = [t \in 1..NumTasks |-> FALSE]
    /\ dbuf = DefraggingBuffer_init
    /\ dcall = [op |-> "init", arg |-> 0, ret |-> TRUE, before |-> DefraggingBuffer_init]
    /\ clist = CyclicArrayList_init
    /\ ccall = [op |-> "init", arg |-> 0, ret |-> TRUE, dst |-> <<>>, touched |-> {},
                pushed |-> 0]
    /\ fifo = <<>>
    /\ calls = 0

\* what can arrive from the radio: messages sealed under either group key,
\* one with a byte of the IV changed in flight, one cut below the overhead,
\* and one cut by two bytes
ReceivedMessages ==
    LET Sealed(key, iv, pt) ==
            D2DMessage(D2D_IV_LEN + Len(pt) + D2D_TAG_LEN, iv, GcmEncrypt(key, iv, pt))
        whole == Sealed(KeyBytes(1), 1, <<104, 105>>)
    IN  {Sealed(k, 1, pt) : k \in RandomKeys, pt \in Plaintexts}
        \cup {[whole EXCEPT !.iv = 2]}
        \cup {[whole EXCEPT !.len = D2D_OVERHEAD - 1], [whole EXCEPT !.len = D2D_OVERHEAD]}

\* Between sec_deinit and sec_init the store is closed and the module is
\* not called; at any other time every function may be.
\* An encryption is given a buffer that just fits or one a byte short, a
\* decryption a buffer of one or two bytes.
Calls(F) ==
    \/ \E p \in Passwords, n \in FreshSalts, f \in F :
          g_is_initialized /\ SetInitialPassword(p, n, f)
    \/ \E p \in Passwords, f \in F : g_is_initialized /\ Login(p, f)
    \/ g_is_initialized /\ Logout
    \/ \E o \in Passwords, p \in Passwords, n \in FreshSalts, f \in F :
          g_is_initialized /\ ChangePassword(o, p, n, f)
    \/ \E b \in BufferSizes, k \in RandomKeys, f \in F :
          g_is_initialized /\ GenerateKey(b, k, f)
    \/ \E str \in ImportStrings, f \in F : g_is_initialized /\ LogKey(str, f)
    \/ \E b \in BufferSizes : g_is_initialized /\ DisplayKey(b)
    \/ g_is_initialized /\ ResetPairing
    \/ Deinit
    \/ Restart
    \/ \E pt \in Plaintexts, iv \in D2D_IVS, f \in F :
          \E b \in {Len(pt) + D2D_OVERHEAD - 1, Len(pt) + D2D_OVERHEAD} :
             g_is_initialized /\ EncryptD2DMessage(pt, b, iv, f)
    \/ \E msg \in ReceivedMessages, b \in {1, 2}, f \in F :
          g_is_initialized /\ DecryptD2DMessage(msg, b, f)

\* every primitive succeeds
Spec == Init /\ [][Calls({NoFault})]_vars

\* any one primitive may report failure during a call
NextFault == Calls(FaultSites \cup {NoFault})
SpecFault == Init /\ [][NextFault]_vars

\* sec_logout, one statement at a time
LogoutStep ==
    /\ \/ /\ ctask = "idle"
          /\ g_decrypted_d2d_key' = Zero16
          /\ ctask' = "logout_248"
          /\ UNCHANGED <<g_wrapping_key, g_is_logged_in>>
       \/ /\ ctask = "logout_248"
          /\ g_wrapping_key' = ZeroKey32
          /\ ctask' = "logout_249"
          /\ UNCHANGED <<g_decrypted_d2d_key, g_is_logged_in>>
       \/ /\ ctask = "logout_249"
          /\ g_is_logged_in' = FALSE
          /\ ctask' = "idle"
          /\ UNCHANGED <<g_decrypted_d2d_key, g_wrapping_key>>
    /\ UNCHANGED <<g_is_initialized, g_is_paired, g_password_hash, g_password_salt,
                   g_encrypted_d2d_key, storage, apiVars, dtask, d2d_ran, lockVars,
                   structVars, hist>>

\* sec_encryptD2DMessage and sec_decryptD2DMessage, one statement at a time:
\* the gate on the two flags, mbedtls_gcm_setkey reading g_decrypted_d2d_key,
\* then the cipher call and the return
D2DStep ==
    /\ \/ /\ dtask = "idle"
          /\ g_is_logged_in /\ g_is_paired
          /\ dtask' = "setkey"
          /\ UNCHANGED d2d_ran
       \/ /\ dtask = "setkey"
          /\ d2d_ran' = [logged_in |-> g_is_logged_in, key |-> g_decrypted_d2d_key]
          /\ dtask' = "crypt"
       \/ /\ dtask = "crypt"
          /\ dtask' = "idle"
          /\ UNCHANGED d2d_ran
    /\ UNCHANGED <<secVars, apiVars, ctask, lockVars, structVars, hist>>

\* the computer-facing task logging in, pairing and logging out while the
\* device-facing task encrypts or decrypts
RaceSpec == Init /\ [][
        \/ ctask = "idle" /\ \E p \in Passwords : Login(p, NoFault)
        \/ ctask = "idle" /\ \E b \in BufferSizes, k \in RandomKeys : GenerateKey(b, k, NoFault)
        \/ LogoutStep
        \/ D2DStep
    ]_vars

\* the service loop and its environment, primitives failing as F allows
ApiSteps(F) ==
    \/ FromDevice
    \/ Recive
    \/ FromComputer(Draw(FreshSalts, Uptimes, GPAK_SIZES, F))
    \/ \E accepted \in BOOLEAN : ToDevice(accepted)
    \/ ToComputer
    \/ ComputerSends
    \/ DeviceDelivers

ApiSpec == Init /\ [][ApiSteps({NoFault})]_vars

\* the same loop when the RNG or the hash may report failure while a
\* password is being set
ApiFaultSpec == Init /\ [][ApiSteps({NoFault, "salt", "hash"})]_vars

\* ------------------------------------------------------------------ C1
\* C1: whenever the logged-in flag is false, the wrapping key and the
\* plaintext group key in RAM are all zero.
C1_NoSecretsWhileLoggedOut ==
    ~g_is_logged_in => (g_wrapping_key = ZeroKey32 /\ g_decrypted_d2d_key = Zero16)


C1_Witness ==
    /\ ~g_is_logged_in
    /\ last.op = "logout" /\ last.was_logged_in /\ last.paired
    /\ {"g_decrypted_d2d_key", "g_wrapping_key"} \subseteq last.changed

\* ------------------------------------------------------------------ C2
\* the node has nothing left to do: the loop is at the top of an iteration
\* with no byte to read and no flag set
Idle ==
    /\ pc = "from_device" /\ serial_rx = <<>>
    /\ ~message_from_computer_flag /\ ~message_to_device_flag
    /\ ~message_to_computer_flag

\* the writes to Serial that answer the n-th request: reply frames carrying
\* its correlation tag, and the text "FAIL" written while it was the frame
\* in computer_in_packet
RepliesTo(n) ==
    {i \in DOMAIN serial_tx :
        \/ /\ serial_tx[i].by = "handle_message_to_computer"
           /\ Slice(serial_tx[i].bytes, 8, 4) = Tag(n)
        \/ /\ serial_tx[i].by = "handle_message_from_computer"
           /\ serial_tx[i].req = Tag(n)}

\* C2: every request frame that passes validation gets exactly one reply on
\* the computer's transport: never more than one, and one by the time the
\* node has nothing left to do.
C2_ExactlyOneReply ==
    \A n \in 1..Len(sent) :
        sent[n].valid =>
            /\ Cardinality(RepliesTo(n)) <= 1
            /\ Idle => Cardinality(RepliesTo(n)) = 1

\* ------------------------------------------------------------------ C3
\* the four checks as stated: start marker, declared length, checksum over
\* bytes [2, length-4), end marker
FourChecks(frame) ==
    LET n == Len(frame) IN
    /\ n >= 6
    /\ frame[1] = 18 /\ frame[2] = 52
    /\ frame[3] * 256 + frame[4] = n
    /\ crc_16(SubSeq(frame, 3, n - 4)) = frame[n - 3] * 256 + frame[n - 2]
    /\ frame[n - 1] = 86 /\ frame[n] = 120

\* C3: handle_message_from_computer hands a received frame to a handler only
\* if all four checks hold on it; a frame failing any one of them (one wrong
\* end-marker byte included) is rejected.
C3_DispatchOnlyIfAllChecksHold ==
    handled.handler # "none" => FourChecks(handled.packet)

\* ------------------------------------------------------------------ C4
\* C4: after sec_generate_key returned true with export string S in a
\* logged-in state whose current password is P, the calls sec_logout,
\* sec_login(P), sec_display_key give: login true, display true with S.
C4_KeyWrapRoundTrip ==
    (/\ Len(hist) >= 3
     /\ hist[1].op = "generate_key" /\ hist[1].ret
     /\ hist[3].arg \in hist[1].authentic)
    => /\ hist[3].ret
       /\ (Len(hist) = 4 /\ hist[4].arg > ExportLen)
            => (hist[4].ret /\ hist[4].out = hist[1].out)

\* ------------------------------------------------------------------ C5
\* C5: after sec_changePassword(old, new) returned true on a paired node
\* (old # new), sec_login(new) returns true and sec_display_key then gives
\* the export string of the group key held before the change, while
\* sec_login(old) returns false.
C5_ChangePasswordKeepsKey ==
    (/\ Len(hist) >= 2
     /\ hist[1].op = "changePassword" /\ hist[1].ret /\ hist[1].paired
     /\ hist[1].arg[1] # hist[1].arg[2])
    => /\ hist[2].arg = hist[1].arg[2] => hist[2].ret
       /\ hist[2].arg = hist[1].arg[1] => ~hist[2].ret
       /\ (Len(hist) = 3 /\ hist[2].arg = hist[1].arg[2] /\ hist[3].arg > ExportLen)
            => (hist[3].ret /\ hist[3].out = hist[1].held)

C5_Witness ==
    /\ Len(hist) = 3
    /\ hist[1].op = "changePassword" /\ hist[1].ret /\ hist[1].paired
    /\ hist[1].arg[1] # hist[1].arg[2]
    /\ hist[2].arg = hist[1].arg[2] /\ hist[2].ret
    /\ hist[3].ret /\ hist[3].out = hist[1].held /\ hist[3].out \in GoodStrings

\* ------------------------------------------------------------------ C6
\* C6: right after sec_setInitialPassword(P) returned true, sec_login(Q)
\* returns true for Q = P and false for every other Q.
C6_CredentialRoundTrip ==
    (/\ Len(hist) = 2
     /\ hist[1].op = "setInitialPassword" /\ hist[1].ret)
    => (hist[2].ret <=> hist[2].arg = hist[1].arg)

C6_Witness ==
    /\ Len(hist) = 2
    /\ hist[1].op = "setInitialPassword" /\ hist[1].ret /\ hist[1].paired
    /\ hist[2].arg = hist[1].arg /\ hist[2].ret /\ g_is_logged_in

\* ------------------------------------------------------------------ C7
\* C7: sec_log_key with a malformed string returns false and leaves the
\* in-RAM group key, the paired flag and the persisted blob as they were.
C7_MalformedImportChangesNothing ==
    (last.op = "log_key" /\ Malformed(last.arg))
    => /\ ~last.ret
       /\ last.changed \cap {"g_decrypted_d2d_key", "g_is_paired", "storage",
                             "g_encrypted_d2d_key"} = {}

\* ------------------------------------------------------------------ C8
\* C8: after any sec_login that returned false, the logged-in flag is
\* false and the wrapping key and the group key in RAM are all zero.
C8_FailedLoginDestroysSession ==
    (last.op = "login" /\ ~last.ret)
    => (~g_is_logged_in /\ g_wrapping_key = ZeroKey32 /\ g_decrypted_d2d_key = Zero16)

\* ------------------------------------------------------------------ C9
\* C9: sec_login with a password whose salted hash differs from the stored
\* hash returns false and changes no field of the state.
C9_MismatchChangesNothing ==
    (last.op = "login" /\ last.arg \notin last.authentic)
    => (~last.ret /\ last.changed = {})

C9_Witness ==
    /\ last.op = "login" /\ last.arg \notin last.authentic
    /\ ~last.ret /\ last.was_logged_in /\ last.paired
    /\ g_is_logged_in /\ g_decrypted_d2d_key # Zero16

\* ------------------------------------------------------------------ C10
\* C10: sec_changePassword(old, new) with an old password that sec_login
\* rejects returns false, leaves the persisted salt, hash and blob and
\* their RAM mirrors as they were, and the passwords that log in are the
\* same as before.
C10_ChangePasswordFailsAtomically ==
    (last.op = "changePassword" /\ last.arg[1] \notin last.can_login)
    => /\ ~last.ret
       /\ last.changed \cap {"storage", "g_password_salt", "g_password_hash",
                             "g_encrypted_d2d_key", "g_is_paired"} = {}
       /\ CanLogin(Sec) = last.can_login

C10_Witness ==
    /\ last.op = "changePassword" /\ last.arg[1] \notin last.can_login
    /\ last.arg[1] # last.arg[2]
    /\ ~last.ret /\ last.paired
    /\ last.can_login # {} /\ CanLogin(Sec) = last.can_login

\* ---------------------------------------------------------------------------
\* C11: whenever sec_changePassword returns, on success and on every failure
\* path, the node is logged out and the wrapping key and the plaintext group
\* key are all-zero, whether or not the node was logged in before the call.
C11_ChangePasswordAlwaysLogsOut ==
    last.op = "changePassword"
    => (~g_is_logged_in /\ g_wrapping_key = ZeroKey32 /\ g_decrypted_d2d_key = Zero16)

\* ---------------------------------------------------------------------------
\* C12: after sec_setInitialPassword returns true the store holds no
\* encrypted group key, the plaintext group key in RAM is all-zero and the
\* node reports not paired, whether or not it was paired or logged in before.
C12_SetInitialPasswordUnpairs ==
    (last.op = "setInitialPassword" /\ last.ret)
    => /\ ~isKey(storage, NVM_KEY_D2D_KEY)
       /\ g_decrypted_d2d_key = Zero16
       /\ ~sec_isPaired(Sec)

C12_Witness ==
    /\ last.op = "setInitialPassword" /\ last.ret
    /\ last.paired /\ last.was_logged_in
    /\ ~isKey(storage, NVM_KEY_D2D_KEY)

\* ---------------------------------------------------------------------------
\* C13: in every state reachable after a successful sec_init, sec_isPaired()
\* is true exactly when a group-key blob is present in the store under the
\* D2D key name, whether the node is logged in or not.
C13_PairedIffBlobStored ==
    g_is_initialized => (sec_isPaired(Sec) <=> isKey(storage, NVM_KEY_D2D_KEY))

\* sec_init has run on a store that holds a blob
C13_Witness ==
    /\ last.op = "init" /\ last.paired
    /\ sec_isPaired(Sec) /\ isKey(storage, NVM_KEY_D2D_KEY)
    /\ ~g_is_logged_in

\* ---------------------------------------------------------------------------
\* C14: called on a node that is not logged in, sec_generate_key, sec_log_key,
\* sec_display_key, sec_encryptD2DMessage and sec_decryptD2DMessage each
\* return false and leave the group key, the paired flag and the store as
\* they were; sec_display_key, sec_encryptD2DMessage and sec_decryptD2DMessage
\* also return false on a node that is not paired; sec_display_key never
\* generates or changes a key.
KeyOps == {"generate_key", "log_key", "display_key", "encryptD2DMessage", "decryptD2DMessage"}
PairedOps == {"display_key", "encryptD2DMessage", "decryptD2DMessage"}
KeyFields == {"g_decrypted_d2d_key", "g_encrypted_d2d_key", "g_is_paired", "storage"}

C14_KeyOpsNeedSession ==
    /\ (last.op \in KeyOps /\ ~last.was_logged_in)
       => (~last.ret /\ last.changed \cap KeyFields = {})
    /\ (last.op \in PairedOps /\ ~last.paired) => ~last.ret
    /\ last.op = "display_key" => last.changed = {}

\* an encryption refused on a paired node without a session
C14_Witness ==
    /\ last.op = "encryptD2DMessage" /\ ~last.was_logged_in /\ last.paired
    /\ ~last.ret /\ last.changed = {}
    /\ isKey(storage, NVM_KEY_D2D_KEY)

\* ---------------------------------------------------------------------------
\* C15: in no interleaving of the computer-facing task (login, logout,
\* set-password, key import) with the device-facing task does a D2D
\* encryption or decryption run while the logged-in flag is true and the
\* group key is zeroed: whenever the cipher runs on a logged-in node, the key
\* it was set up with is the group key of the pairing.
C15_D2DNeverRunsOnWipedKey ==
    (dtask = "crypt" /\ d2d_ran.logged_in) => d2d_ran.key # Zero16

\* ---------------------------------------------------------------------------
\* C16: when the frame received fails a validation check (start marker,
\* declared length, checksum or end marker), handle_message_from_computer
\* invokes no handler, changes no session or credential state, sets neither
\* message_to_computer_flag nor message_to_device_flag, clears
\* message_from_computer_flag, and writes nothing to the computer.
HandlesFrame ==
    pc = "from_computer" /\ pc' = "to_device" /\ message_from_computer_flag

DroppedWithoutEffect ==
    /\ handled'.handler = "none"
    /\ UNCHANGED secVars
    /\ UNCHANGED <<message_to_computer_flag, message_to_device_flag, serial_tx>>
    /\ ~message_from_computer_flag'

C16_InvalidFrameShortCircuits ==
    [][(HandlesFrame /\ ~FourChecks(Slice(computer_in_packet, 0, computer_in_size)))
       => DroppedWithoutEffect]_vars

\* ---------------------------------------------------------------------------
\* C17: a received byte sequence shorter than the 16-byte minimum frame is
\* dropped: no handler is dispatched for it and no reply is written.
MIN_FRAME == 16

C17_TruncatedFrameDropped ==
    [][(HandlesFrame /\ computer_in_size < MIN_FRAME)
       => (handled'.handler = "none" /\ ~message_to_computer_flag'
           /\ serial_tx' = serial_tx)]_vars

\* ---------------------------------------------------------------------------
\* C18: a validated frame whose type tag matches no handler makes the node
\* write a failure reply to the computer, and a valid frame received after it
\* is still dispatched and answered.
ReceivedFrame == Slice(computer_in_packet, 0, computer_in_size)
FailReply == [by |-> "handle_message_from_computer", bytes |-> Status.FAIL,
              req |-> Slice(computer_in_packet, 8, 4)]

C18_UnknownTagGetsFailureReply ==
    [][/\ (HandlesFrame /\ handled'.handler = "unknown")
          => serial_tx' = Append(serial_tx, FailReply)
       /\ (/\ HandlesFrame /\ handled.handler = "unknown"
           /\ Len(sent) >= 2 /\ sent[Len(sent)].valid
           /\ ReceivedFrame = sent[Len(sent)].frame)
          => /\ handled'.handler # "none"
             /\ handled'.handler # "unknown" => message_to_computer_flag'
      ]_vars

\* an unknown tag answered with FAIL, then the next request answered with
\* its acknowledgement
C18_Witness ==
    /\ Len(sent) = 2 /\ sent[1].valid /\ sent[2].valid
    /\ SubSeq(sent[1].frame, 5, 8) = UnknownType
    /\ \E i \in RepliesTo(1) : serial_tx[i].bytes = Status.FAIL
    /\ \E i \in RepliesTo(2) : serial_tx[i].by = "handle_message_to_computer"

\* ---------------------------------------------------------------------------
\* C19: every acknowledgement frame written to the computer has the ack type
\* paired with the type of a request the computer sent (CONN/CACK, PASS/PWAK,
\* STPW/SPAK, DCON/DCAK, SEND/SACK, SNOD/SNAK, EPAR/EPAK, SCAN/SCAK,
\* GPKY/GPAK) and carries in bytes 8-11 the correlation tag of that same
\* request, also when the hand-off of a SEND is retried while further
\* requests arrive.
AckPairs == {<<Request.CONN, Ack.CACK>>, <<Request.PASS, Ack.PWAK>>, <<Request.STPW, Ack.SPAK>>, <<Request.DCON, Ack.DCAK>>, <<Request.SEND, Ack.SACK>>,
             <<Request.SNOD, Ack.SNAK>>, <<Request.EPAR, Ack.EPAK>>, <<Request.SCAN, Ack.SCAK>>, <<Request.GPKY, Ack.GPAK>>}

Answers(ack, request) ==
    /\ <<SubSeq(request, 5, 8), Slice(ack, 4, 4)>> \in AckPairs
    /\ Slice(ack, 8, 4) = SubSeq(request, 9, 12)

C19_AckMatchesItsRequest ==
    \A i \in DOMAIN serial_tx :
        serial_tx[i].by = "handle_message_to_computer"
        => \E n \in DOMAIN sent : Answers(serial_tx[i].bytes, sent[n].frame)

\* ---------------------------------------------------------------------------
\* C20: every acknowledgement frame built by a build_*_packet function and
\* written to the computer is a valid frame under the decode rules: it starts
\* 0x12 0x34, its length field equals the number of bytes transmitted, its
\* checksum field is the CRC-16 of bytes [2, length-4), and it ends 0x56 0x78.
C20_AcksAreValidFrames ==
    \A i \in DOMAIN serial_tx :
        serial_tx[i].by = "handle_message_to_computer" => FourChecks(serial_tx[i].bytes)

\* ---------------------------------------------------------------------------
\* C21: when an EPAR frame carries an import string that sec_log_key rejects
\* (a character outside the alphabet, or the node is not logged in), the
\* acknowledgement built for it carries the FAIL status payload; it carries
\* OKAY only when the key was imported.
AckStatus(out) == Slice(out, 12, 4)

C21_RejectedImportAnsweredFail ==
    [][(HandlesFrame /\ handled'.handler = "EPAR")
       => LET key == CStr(Slice(computer_in_packet, 12, ExportLen))
              imported == sec_log_key(Sec, key, NoFault).ret
          IN  /\ ~imported => AckStatus(computer_out_packet') = Status.FAIL
              /\ AckStatus(computer_out_packet') = Status.OKAY => imported]_vars

\* ---------------------------------------------------------------------------
\* C22: the SPAK acknowledgement to an STPW request carries OKAY only if the
\* password update succeeded (a new salt and hash were stored) and carries
\* FAIL whenever it failed.
C22_SpakReportsOutcome ==
    [][(HandlesFrame /\ handled'.handler = "STPW")
       => LET updated == storage'[NVM_KEY_SALT] # storage[NVM_KEY_SALT]
          IN  /\ AckStatus(computer_out_packet') = Status.OKAY => updated
              /\ ~updated => AckStatus(computer_out_packet') = Status.FAIL]_vars

\* ---------------------------------------------------------------------------
\* C23: sec_decryptD2DMessage fails closed: for an input shorter than the
\* fixed overhead, or one whose authentication tag does not verify, it
\* returns false and delivers nothing: no bytes written to the output
\* buffer and no plaintext length reported.
C23_DecryptFailsClosed ==
    /\ (last.op = "decryptD2DMessage" /\ ~last.ret) => last.out = NoOut
    /\ (last.op = "decryptD2DMessage" /\ last.was_logged_in /\ last.paired
        /\ (\/ last.arg.len < D2D_OVERHEAD
            \/ ~GcmTagOk(g_decrypted_d2d_key, last.arg.iv, last.arg.body)))
       => ~last.ret

\* ---------------------------------------------------------------------------
\* C24: on success sec_encryptD2DMessage produces exactly plaintextLen + 28
\* bytes (a 12-byte IV, plaintextLen bytes of ciphertext, a 16-byte tag) and
\* sets *ciphertextLen to plaintextLen + 28; sec_decryptD2DMessage strips the
\* same 28 bytes.
DOCUMENTED_OVERHEAD == 28

C24_OverheadIs28 ==
    /\ (last.op = "encryptD2DMessage" /\ last.ret)
       => last.out.len = Len(last.arg) + DOCUMENTED_OVERHEAD
    /\ (last.op = "decryptD2DMessage" /\ last.ret)
       => last.out.plaintextLen = last.arg.len - DOCUMENTED_OVERHEAD

\* ---------------------------------------------------------------- C25
\* The nodes a key string can be taken to: a node after its first start and
\* login, and the same node already paired with a key of its own.
PeerNodes ==
    LET fresh(n) == sec_login(sec_init(EmptyStorage, n), DefaultPassword, NoFault).s
    IN  {fresh(n) : n \in Salts}
        \cup {sec_generate_key(fresh(n), ExportLen + 1, k, NoFault).s :
                 n \in Salts, k \in RandomKeys}

\* C25: manual pairing works end to end.  When sec_generate_key on this node
\* (A) has returned the string S and sec_log_key(S) on a logged-in peer (B)
\* returns true, both hold the same 16-byte group key, and every message
\* sealed by sec_encryptD2DMessage on A is opened by sec_decryptD2DMessage on
\* B: it returns true and reports exactly the plaintext and its length.
C25_ManualPairingEndToEnd ==
    (last.op = "generate_key" /\ last.ret)
    => \A B \in PeerNodes :
         LET r == sec_log_key(B, last.out, NoFault) IN
         r.ret =>
           /\ r.s.g_decrypted_d2d_key = g_decrypted_d2d_key
           /\ \A pt \in Plaintexts, iv \in D2D_IVS :
                LET e == sec_encryptD2DMessage(Sec, pt, Len(pt) + D2D_OVERHEAD, iv, NoFault)
                    d == sec_decryptD2DMessage(r.s, e.out, Len(pt), NoFault)
                IN  /\ e.ret
                    /\ d.ret
                    /\ d.out = [plaintext |-> pt, plaintextLen |-> Len(pt)]

\* A key made on A is imported by a peer that held a different key.
C25_Witness ==
    /\ last.op = "generate_key" /\ last.ret
    /\ \E B \in PeerNodes :
         /\ B.g_is_paired
         /\ B.g_decrypted_d2d_key # g_decrypted_d2d_key
         /\ sec_log_key(B, last.out, NoFault).ret

\* ---------------------------------------------------------------- C26
\* C26: persisted credentials survive a restart.  After sec_deinit followed
\* by sec_init (1) the node is logged out and the wrapping key and the group
\* key in RAM are zero; (2) the store is left as it was and the passwords
\* that authenticate are those that did before, the default password being
\* provisioned only on a store without a salt; (3) if the node was paired,
\* sec_login with the current password returns true and sec_display_key
\* then gives the export string of the persisted group key.
C26_CredentialsSurviveRestart ==
    /\ \A n \in Salts : Authentic(sec_init(EmptyStorage, n)) = {DefaultPassword}
    /\ (Len(hist) >= 2 /\ hist[1].op = "deinit" /\ hist[2].op = "init")
       => /\ Len(hist) = 2
             => /\ ~g_is_logged_in
                /\ g_wrapping_key = ZeroKey32 /\ g_decrypted_d2d_key = Zero16
                /\ "storage" \notin (hist[1].changed \cup hist[2].changed)
                /\ Authentic(Sec) = hist[1].authentic
                /\ g_is_paired = hist[1].paired
          /\ (Len(hist) >= 3 /\ hist[1].paired /\ hist[3].arg \in hist[1].authentic)
             => /\ hist[3].ret
                /\ (Len(hist) = 4 /\ hist[4].arg > ExportLen)
                   => (hist[4].ret /\ hist[4].out = hist[1].held)

\* the restart itself: parts (1) and (2) alone
C26_RestartKeepsStore ==
    /\ \A n \in Salts : Authentic(sec_init(EmptyStorage, n)) = {DefaultPassword}
    /\ (Len(hist) = 2 /\ hist[1].op = "deinit" /\ hist[2].op = "init")
       => /\ ~g_is_logged_in
          /\ g_wrapping_key = ZeroKey32 /\ g_decrypted_d2d_key = Zero16
          /\ "storage" \notin (hist[1].changed \cup hist[2].changed)
          /\ Authentic(Sec) = hist[1].authentic
          /\ g_is_paired = hist[1].paired

\* ---------------------------------------------------------------- C27
\* the frame the claim describes for a SEND frame of length L with payload P
Relayed(frame) ==
    LET L    == Len(frame)
        P    == SubSeq(frame, 13, L - 4)
        body == <<((L + 1) \div 256) % 256, (L + 1) % 256>> \o Request.SEND
                \o SubSeq(frame, 9, 12) \o <<deviceID>> \o P
        crc  == crc_16(body)
    IN  START_BYTES \o body \o <<(crc \div 256) % 256, crc % 256>> \o END_BYTES

ValidatedSends ==
    {sent[j].frame : j \in {i \in DOMAIN sent : sent[i].valid /\ SubSeq(sent[i].frame, 5, 8) = Request.SEND}}

\* C27: what handle_message_to_device passes to addMessageToTxArray is the
\* relayed form of a validated SEND frame, whole: length field L+1, type
\* SEND, the same correlation tag, the deviceID byte followed by the payload,
\* the checksum over bytes [2, L-3) and the end marker, a valid frame itself.
C27_RelayedFrameWholeAndValid ==
    [][(pc = "to_device" /\ pc' = "to_computer" /\ message_to_device_flag)
       => LET handed == Slice(device_out_packet, 0, device_out_size)
          IN  /\ \E fr \in ValidatedSends : handed = Relayed(fr)
              /\ FourChecks(handed)]_vars

\* the frame as handle_SEND_packet leaves it in device_out_packet
C27_BuiltAsDescribed ==
    [][(HandlesFrame /\ handled'.handler = "SEND")
       => LET built == Slice(device_out_packet', 0, device_out_size')
          IN  /\ built = Relayed(handled'.packet)
              /\ FourChecks(built)]_vars

\* The service loop under its scheduling: apiCode is a task that runs
\* while (1), so whichever step of the loop is next is eventually taken.  The
\* computer sends SEND frames only and may stop sending; the radio side may
\* stay silent.  The steps of the loop are the steps that change pc, and the
\* one at pc is enabled whenever the loop runs, so fairness of the loop is
\* weak fairness of "pc changes".
LoopAdvances ==
    LET next == [from_device |-> "recive", recive |-> "from_computer",
                 from_computer |-> "to_device", to_device |-> "to_computer",
                 to_computer |-> "from_device"]
    IN  Running /\ pc' = next[pc]
ComputerSendsSEND == ComputerSends /\ SubSeq(serial_rx', 5, 8) = Request.SEND
RelaySpec == Init /\ [][
        \/ FromDevice
        \/ Recive
        \/ FromComputer(Draw(FreshSalts, Uptimes, GPAK_SIZES, {NoFault}))
        \/ \E accepted \in BOOLEAN : ToDevice(accepted)
        \/ ToComputer
        \/ ComputerSendsSEND
        \/ DeviceDelivers
    ]_vars /\ WF_pc(LoopAdvances)

\* ---------------------------------------------------------------- C28
\* the relayed frame of the n-th request is in the device queue
Accepted(n) ==
    \E i \in DOMAIN txArray :
        Len(txArray[i].bytes) >= 12 /\ SubSeq(txArray[i].bytes, 9, 12) = Tag(n)
\* a SACK carrying the tag of the n-th request has been written
SackWritten(n) ==
    \E i \in DOMAIN serial_tx :
        /\ serial_tx[i].by = "handle_message_to_computer"
        /\ Len(serial_tx[i].bytes) >= 12
        /\ SubSeq(serial_tx[i].bytes, 5, 8) = Ack.SACK
        /\ SubSeq(serial_tx[i].bytes, 9, 12) = Tag(n)

\* C28: a validated SEND frame whose relayed form addMessageToTxArray has
\* accepted, at the first attempt or at a later one, is eventually answered
\* by a SACK with its tag written to the computer (as long as the loop
\* runs); and handle_message_to_computer writes nothing while the SEND frame
\* it would answer has not been accepted.
C28_SendAnsweredOnceAccepted ==
    /\ \A n \in 1..MaxRequests : [](Accepted(n) => <>(SackWritten(n) \/ ~Running))
    /\ [][(pc = "to_computer" /\ serial_tx' # serial_tx /\ handled.handler = "SEND")
          => \E n \in 1..MaxRequests :
                handled.packet = Frame(Request.SEND, Tag(n), Payload) /\ Accepted(n)]_vars

\* the first half alone
C28_EventuallySack ==
    \A n \in 1..MaxRequests : [](Accepted(n) => <>(SackWritten(n) \/ ~Running))

\* a SEND accepted at the first attempt is answered in the same iteration
C28_AcceptedAtOnceIsAnswered ==
    [][(pc = "to_device" /\ pc' = "to_computer" /\ handled.handler = "SEND"
        /\ message_to_device_flag /\ ~message_to_device_flag'
        /\ message_to_computer_flag)
       => (message_to_computer_flag' /\ computer_out_size' = SACK_SIZE
           /\ Slice(computer_out_packet', 4, 4) = Ack.SACK)]_vars

\* ------------------------------------------------------------ ScopedLock
Tasks == 1..NumTasks

\* if (!(*lock)) { *lock = true; lLock = lock; success = true; } with the
\* flag and success as they are
Acquire_NoSecondTest(flag, ok) == [lock |-> TRUE, success |-> TRUE]

Acquire(flag, ok) ==
    IF ~flag THEN [lock |-> TRUE, success |-> TRUE]
    ELSE [lock |-> flag, success |-> ok]

\* the constructor of task t, one statement at a time
ScopedLockCtor(t) ==
    /\ \/ /\ lpc[t] = "outside"                      \* bool success = false;
          /\ success' = [success EXCEPT ![t] = FALSE]
          /\ lpc' = [lpc EXCEPT ![t] = "while_lock"]
          /\ UNCHANGED <<lock, spinLock>>
       \/ /\ lpc[t] = "while_lock" /\ ~lock           \* while (*lock);
          /\ lpc' = [lpc EXCEPT ![t] = "enter_critical"]
          /\ UNCHANGED <<lock, spinLock, success>>
       \/ /\ lpc[t] = "enter_critical" /\ spinLock = 0 \* taskENTER_CRITICAL(spinLock);
          /\ spinLock' = t
          /\ lpc' = [lpc EXCEPT ![t] = "if_not_lock"]
          /\ UNCHANGED <<lock, success>>
       \/ /\ lpc[t] = "if_not_lock"                   \* if (!(*lock)) { ... }
          /\ \E a \in {Acquire(lock, success[t])} :
                /\ lock' = a.lock
                /\ success' = [success EXCEPT ![t] = a.success]
          /\ lpc' = [lpc EXCEPT ![t] = "exit_critical"]
          /\ UNCHANGED spinLock
       \/ /\ lpc[t] = "exit_critical"                 \* taskEXIT_CRITICAL(spinLock);
          /\ spinLock' = 0
          /\ lpc' = [lpc EXCEPT ![t] = "if_success"]
          /\ UNCHANGED <<lock, success>>
       \/ /\ lpc[t] = "if_success"                    \* if (success) break;
          /\ lpc' = [lpc EXCEPT ![t] = IF success[t] THEN "constructed" ELSE "while_lock"]
          /\ UNCHANGED <<lock, spinLock, success>>
    /\ UNCHANGED <<secVars, apiVars, ctask, dtask, d2d_ran, structVars, hist>>

\* the destructor: *lLock = false;
ScopedLockDtor(t) ==
    /\ lpc[t] = "constructed"
    /\ lock' = FALSE
    /\ lpc' = [lpc EXCEPT ![t] = "outside"]
    /\ UNCHANGED <<spinLock, success>>
    /\ UNCHANGED <<secVars, apiVars, ctask, dtask, d2d_ran, structVars, hist>>

LockSpec == Init /\ [][\E t \in Tasks : ScopedLockCtor(t) \/ ScopedLockDtor(t)]_vars

\* ---------------------------------------------------------------- C29
\* the tasks holding the lock: from the statement that set the flag to the
\* destructor
Holders == {t \in Tasks : success[t] /\ lpc[t] \in {"exit_critical", "if_success", "constructed"}}

\* C29: ScopedLock gives mutual exclusion.  In every interleaving of tasks
\* constructing and destroying ScopedLock objects on one (spinlock, flag)
\* pair at most one task holds the lock, the flag is set exactly while a
\* task holds it (so it is false whenever none does), and a task that finds
\* the flag set inside the critical section leaves the flag alone, leaves
\* the critical section and goes back to the unlocked test.
C29_ScopedLockMutualExclusion ==
    /\ [](Cardinality(Holders) <= 1 /\ (lock <=> Holders # {}))
    /\ [][\A t \in Tasks :
            /\ (lpc[t] = "if_not_lock" /\ lock /\ lpc'[t] # lpc[t])
               => (lock' /\ ~success'[t] /\ lpc'[t] = "exit_critical")
            /\ (lpc[t] = "if_success" /\ ~success[t] /\ lpc'[t] # lpc[t])
               => lpc'[t] = "while_lock"]_vars

\* a task backs out while another holds the lock
C29_Witness ==
    \E t \in Tasks, u \in Tasks :
        /\ t # u
        /\ lpc[u] = "constructed"
        /\ lpc[t] = "if_success" /\ ~success[t]

\* the service loop with up to MaxQueued messages from the device channel
\* (the computer sends SEND frames only)
QueueSpec == Init /\ [][
        \/ FromDevice
        \/ Recive
        \/ FromComputer(Draw(FreshSalts, Uptimes, GPAK_SIZES, {NoFault}))
        \/ \E accepted \in BOOLEAN : ToDevice(accepted)
        \/ ToComputer
        \/ ComputerSendsSEND
        \/ DeviceQueues(MaxQueued)
    ]_vars

\* ---------------------------------------------------------------- C30
\* C30: the serial send queue is first-in first-out.  The messages written
\* to the computer by handle_message_from_device are, in the order of
\* writing, the first, the second, ... of the messages added to
\* serialReadyToSendArray.
C30_SerialQueueIsFifo ==
    LET IsForward(w) == w.by = "handle_message_from_device"
        written == SelectSeq(serial_tx, IsForward)
    IN  \A i \in 1..Len(written) : written[i].bytes = InboundMessage(i)

\* ------------------------------------------------ DefraggingBuffer in use
Malloc(size) ==
    /\ calls < MaxCalls
    /\ \E r \in {DefraggingBuffer_malloc(dbuf, size)} :
          /\ dbuf' = r.b
          /\ dcall' = [op |-> "malloc", arg |-> size, ret |-> r.ret, before |-> dbuf]
    /\ calls' = calls + 1
    /\ UNCHANGED <<secVars, apiVars, ctask, dtask, d2d_ran, lockVars, clist, ccall, fifo, hist>>

Free(location, lands) ==
    /\ calls < MaxCalls
    /\ \E r \in {DefraggingBuffer_free(dbuf, location, lands)} :
          /\ dbuf' = r.b
          /\ dcall' = [op |-> "free", arg |-> location, ret |-> r.ret, before |-> dbuf]
    /\ calls' = calls + 1
    /\ UNCHANGED <<secVars, apiVars, ctask, dtask, d2d_ran, lockVars, clist, ccall, fifo, hist>>

\* any requests of up to SIZE + 1 bytes, and frees of any offset
BufferSpec == Init /\ [][
        \/ \E size \in 0..(SIZE + 1) : Malloc(size)
        \/ \E location \in 0..SIZE, lands \in BOOLEAN : Free(location, lands)
    ]_vars

\* ---------------------------------------------------------------- C31
\* the live allocations of b, the bytes they occupy, and the lowest offset
\* at which size contiguous bytes are free
Live(b) == {[start |-> At(b, "allocationStartPositions", i), size |-> At(b, "allocationSizes", i)] :
               i \in 0..(b.numAllocations - 1)}
Busy(b, x) == \E a \in Live(b) : a.start <= x /\ x < a.start + a.size
FreeRegions(b, size) ==
    {o \in 0..(SIZE - size) : \A x \in o..(o + size - 1) : ~Busy(b, x)}
FirstFit(b, size) ==
    IF b.numAllocations = MAX_ALLOCATIONS \/ FreeRegions(b, size) = {} THEN MallocFailed
    ELSE CHOOSE o \in FreeRegions(b, size) : \A p \in FreeRegions(b, size) : o <= p

\* C31: DefraggingBuffer::malloc(n) is first-fit.  It returns the lowest
\* start offset at which n contiguous bytes are free, and the failure value
\* only when there is no such offset or MAX_ALLOCATIONS allocations are
\* live; so a second allocation succeeds after a first one, and after a
\* free of the first a request that fits is placed at offset 0.
C31_MallocIsFirstFit ==
    dcall.op = "malloc" => dcall.ret = FirstFit(dcall.before, dcall.arg)

\* what holds: a request is placed at offset 0 or refused; it is placed
\* exactly when it is no larger than the first recorded open space
C31_MallocTriesOffsetZeroOnly ==
    dcall.op = "malloc" =>
        /\ dcall.ret \in {0, MallocFailed}
        /\ dcall.ret = 0 <=>
              /\ dcall.arg <= SIZE
              /\ dcall.before.numAllocations < MAX_ALLOCATIONS
              /\ At(dcall.before, "openSpaceBetweenAllocations", 0) >= dcall.arg

\* ---------------------------------------------------------------- C39
\* the sum of the first n entries of one of the three tables of b
RECURSIVE TableSum(_, _, _)
TableSum(b, array, n) == IF n = 0 THEN 0 ELSE At(b, array, n - 1) + TableSum(b, array, n - 1)

\* C39: after any sequence of malloc and free calls the live allocations
\* lie within [0, SIZE), no two of them overlap, the recorded start
\* positions are in increasing order, and the recorded open spaces plus the
\* allocation sizes sum to exactly SIZE.
C39_BufferWellFormed ==
    LET n == dbuf.numAllocations
        start(i) == At(dbuf, "allocationStartPositions", i)
        size(i) == At(dbuf, "allocationSizes", i)
    IN  /\ \A i \in 0..(n - 1) : start(i) + size(i) <= SIZE
        /\ \A i \in 0..(n - 1), j \in 0..(n - 1) :
              i < j => (start(i) + size(i) <= start(j) \/ start(j) + size(j) <= start(i)
                        \/ size(i) = 0 \/ size(j) = 0)
        /\ \A i \in 0..(n - 2) : start(i) <= start(i + 1)
        /\ TableSum(dbuf, "openSpaceBetweenAllocations", n + 1)
           + TableSum(dbuf, "allocationSizes", n) = SIZE

\* what holds: every live allocation starts at offset 0 and is no larger
\* than SIZE, and at most MAX_ALLOCATIONS are live
C39_AllocationsStartAtZero ==
    /\ dbuf.numAllocations \in 0..MAX_ALLOCATIONS
    /\ \A i \in 0..(dbuf.numAllocations - 1) :
          /\ At(dbuf, "allocationStartPositions", i) = 0
          /\ At(dbuf, "allocationSizes", i) <= SIZE

\* ------------------------------------------------- CyclicArrayList in use
\* The k-th element pushed is the byte k.  A call is made while fewer than
\* MaxCalls were and (the guard of each action) no store has gone outside
\* the buffer.
ListCall(op, arg, r, l, queue, count) ==
    /\ calls < MaxCalls
    /\ clist' = l
    /\ ccall' = [op |-> op, arg |-> arg, ret |-> r.ret, dst |-> r.dst, touched |-> r.touched,
                 pushed |-> ccall.pushed + count]
    /\ fifo' = queue
    /\ calls' = calls + 1
    /\ UNCHANGED <<secVars, apiVars, ctask, dtask, d2d_ran, lockVars, dbuf, dcall, hist>>

PushBack(size) ==
    /\ clist.bufferEnd <= LIST_SIZE
    /\ \E src \in {[k \in 1..size |-> (ccall.pushed + k) % 256]} :
       \E r \in {pushBack(clist, src)} :
          ListCall("pushBack", size, r @@ [dst |-> <<>>], r.l,
                   IF r.ret THEN fifo \o src ELSE fifo, IF r.ret THEN size ELSE 0)

PushBackSingle(lands) ==
    /\ clist.bufferEnd <= LIST_SIZE
    /\ \E value \in {(ccall.pushed + 1) % 256} :
       \E r \in {pushBackSingle(clist, value, lands)} :
          ListCall("pushBackSingle", value, r @@ [dst |-> <<>>], r.l,
                   IF r.ret THEN Append(fifo, value) ELSE fifo, IF r.ret THEN 1 ELSE 0)

PeakFront(s) ==
    /\ clist.bufferEnd <= LIST_SIZE
    /\ \E r \in {peakFront(clist, s)} :
        ListCall("peakFront", s, r, clist, fifo, 0)

DropFront(size) ==
    /\ clist.bufferEnd <= LIST_SIZE
    /\ \E l \in {dropFront(clist, size)} :
        ListCall("dropFront", size, [ret |-> TRUE, dst |-> <<>>, touched |-> {}], l,
                 IF size >= Len(fifo) THEN <<>> ELSE SubSeq(fifo, size + 1, Len(fifo)), 0)

\* pushes of up to LIST_SIZE + 1 elements, reads and drops of as many
ListSpec == Init /\ [][
        \/ \E size \in 0..(LIST_SIZE + 1) : PushBack(size)
        \/ \E lands \in BOOLEAN : PushBackSingle(lands)
        \/ \E s \in 0..(LIST_SIZE + 1) : PeakFront(s)
        \/ \E size \in 0..(LIST_SIZE + 1) : DropFront(size)
    ]_vars

\* ---------------------------------------------------------------- C40
\* C40: CyclicArrayList behaves as a bounded FIFO queue of capacity SIZE.
\* After any sequence of pushBack, pushBackSingle and dropFront calls size()
\* is the number of elements pushed minus the number dropped, also when the
\* list holds exactly SIZE elements; peakFront(n) returns the n oldest
\* elements in push order, also when the data wraps around the end of the
\* buffer; and no operation indexes the buffer outside [0, SIZE).
C40_ListIsBoundedFifo ==
    /\ Len(fifo) <= LIST_SIZE
    /\ CyclicArrayList_size(clist) = Len(fifo)
    /\ (ccall.op = "peakFront" /\ ccall.arg <= Len(fifo))
          => (ccall.ret /\ ccall.dst = SubSeq(fifo, 1, ccall.arg))
    /\ ccall.touched \subseteq 0..(LIST_SIZE - 1)

\* the parts of the claim on their own
C40_SizeIsPushedMinusDropped == CyclicArrayList_size(clist) = Len(fifo)
C40_PeakFrontReturnsOldest ==
    (ccall.op = "peakFront" /\ ccall.ret) => ccall.dst = SubSeq(fifo, 1, ccall.arg)
C40_IndicesInsideBuffer == ccall.touched \subseteq 0..(LIST_SIZE - 1)

\* ---------------------------------------------------------------- C32
\* C32: in every reachable state in which the node is paired, sec_login
\* with the most recently set password (the one whose salted hash is the
\* stored hash) succeeds: the persisted group-key blob can be decrypted
\* under the key derived from that password and the persisted salt.  This
\* is to hold after any sequence of calls, sec_setInitialPassword followed
\* by sec_generate_key or sec_log_key in one logged-in session included.
C32_PairedNodeCanLogIn ==
    (g_is_initialized /\ g_is_paired) =>
        \A p \in Authentic(Sec) :
            /\ sec_login(Sec, p, NoFault).ret
            /\ isKey(storage, NVM_KEY_SALT) /\ isKey(storage, NVM_KEY_D2D_KEY)
            /\ GcmTagOk(sec_derive_key(p, storage[NVM_KEY_SALT]), storage[NVM_KEY_SALT],
                        storage[NVM_KEY_D2D_KEY])

\* what holds: the blob of a paired node can be decrypted under the
\* wrapping key that was in RAM when it was written, which is the key of
\* the current password unless sec_setInitialPassword was called while
\* logged in
C32_BlobWrappedUnderKeyInRam ==
    (g_is_initialized /\ g_is_paired /\ g_is_logged_in
     /\ last.op \in {"generate_key", "log_key"} /\ last.ret)
    => GcmTagOk(g_wrapping_key, g_password_salt, storage[NVM_KEY_D2D_KEY])

\* ---------------------------------------------------------------- C33
\* C33: after every operation of the security module has returned, with
\* success or with failure (a primitive reporting failure part-way through
\* sec_setInitialPassword or sec_changePassword included), the RAM mirrors
\* g_password_salt, g_password_hash and g_encrypted_d2d_key equal what the
\* store holds (all zero for a blob the store does not hold), and the
\* persisted salt, hash and blob belong to one password.
C33_MirrorsMatchStore ==
    g_is_initialized =>
        /\ isKey(storage, NVM_KEY_SALT) /\ g_password_salt = storage[NVM_KEY_SALT]
        /\ isKey(storage, NVM_KEY_HASH) /\ g_password_hash = storage[NVM_KEY_HASH]
        /\ g_encrypted_d2d_key = IF isKey(storage, NVM_KEY_D2D_KEY)
                                 THEN storage[NVM_KEY_D2D_KEY] ELSE ZeroBlob
        /\ \E p \in Passwords :
              /\ storage[NVM_KEY_HASH] = sec_hash_password(p, storage[NVM_KEY_SALT])
              /\ isKey(storage, NVM_KEY_D2D_KEY)
                    => GcmTagOk(sec_derive_key(p, storage[NVM_KEY_SALT]),
                                storage[NVM_KEY_SALT], storage[NVM_KEY_D2D_KEY])

\* what holds while every primitive succeeds: the mirrors equal the store,
\* and salt and hash belong to one password
C33_MirrorsMatchStoreWithoutFaults ==
    g_is_initialized =>
        /\ isKey(storage, NVM_KEY_SALT) /\ g_password_salt = storage[NVM_KEY_SALT]
        /\ isKey(storage, NVM_KEY_HASH) /\ g_password_hash = storage[NVM_KEY_HASH]
        /\ g_encrypted_d2d_key = IF isKey(storage, NVM_KEY_D2D_KEY)
                                 THEN storage[NVM_KEY_D2D_KEY] ELSE ZeroBlob
        /\ \E p \in Passwords :
              storage[NVM_KEY_HASH] = sec_hash_password(p, storage[NVM_KEY_SALT])

\* ---------------------------------------------------------------- C34
\* C34: no two key-wrap encryptions made by _sec_encrypt_and_save_d2d_key,
\* over any sequence of sec_generate_key, sec_log_key and
\* sec_changePassword calls, use the same (wrapping key, IV) pair for two
\* different group keys.  Stated for a wrap and the one before it, whose
\* blob the store still holds.
C34_NoIvReuseUnderOneKey ==
    [][(isKey(storage, NVM_KEY_D2D_KEY) /\ isKey(storage', NVM_KEY_D2D_KEY))
       => LET old == storage[NVM_KEY_D2D_KEY]
              new == storage'[NVM_KEY_D2D_KEY]
          IN  (old[2] = new[2] /\ old[3] = new[3]) => old[4] = new[4]]_vars

\* what holds: the IV of every wrap is the password salt of the moment
C34_IvIsThePasswordSalt ==
    isKey(storage, NVM_KEY_D2D_KEY) =>
        storage[NVM_KEY_D2D_KEY][3] = storage[NVM_KEY_SALT]

\* ---------------------------------------------------------------- C38
\* C38: for every 20-character string s over the Z85 alphabet, on a
\* logged-in node sec_log_key(s) followed by sec_display_key returns
\* exactly s: decoding a block of five characters never exceeds 32 bits.
C38_ImportIsExportedUnchanged ==
    (last.op = "log_key" /\ last.was_logged_in /\ Len(last.arg) = ExportLen
     /\ \A i \in 1..ExportLen : InAlphabet(last.arg[i]))
    => /\ last.ret
       /\ \E r \in {sec_display_key(Sec, ExportLen + 1)} : r.ret /\ r.out = last.arg

\* what holds: an import is accepted exactly when it has 20 characters of
\* the alphabet, and the key then held is the one sec_display_key exports,
\* each block being the value of its five characters modulo 2^32
C38_ImportAcceptedAndExportable ==
    (last.op = "log_key" /\ last.was_logged_in)
    => /\ last.ret <=> (Len(last.arg) = ExportLen /\ \A i \in 1..Len(last.arg) : InAlphabet(last.arg[i]))
       /\ last.ret => \E r \in {sec_display_key(Sec, ExportLen + 1)} :
                          r.ret /\ r.out = EncodeKey(g_decrypted_d2d_key)

\* ---------------------------------------------------------------- C36
\* C36: after every handled request frame, whatever the sequence of PASS,
\* DCON, STPW, EPAR, GPKY and other requests, the dispatcher's
\* password_entered_flag equals sec_isLoggedIn(); so a PASS answered with
\* FAIL leaves the node logged out.
C36_FlagEqualsLoggedIn ==
    password_entered_flag = sec_isLoggedIn(Sec)

\* the second sentence on its own
C36_FailedPassLeavesNodeLoggedOut ==
    [][(HandlesFrame /\ handled'.handler = "PASS"
        /\ AckStatus(computer_out_packet') = Status.FAIL)
       => ~g_is_logged_in']_vars

\* what holds: the flag is set only while the module is logged in, and a
\* PASS is answered OKAY exactly when sec_login returned true
C36_FlagImpliesLoggedIn ==
    password_entered_flag => sec_isLoggedIn(Sec)

\* ---------------------------------------------------------------- C35
\* the reply to a GPKY request made after logout, on a node that in its
\* session imported the group key k (EPAR), answered a GPKY request with it
\* and was then disconnected (DCON); gpakSize is the value of GPAK_SIZE
ReplyAfterLogout(k, gpakSize) ==
    LET With(m, fr) == [m EXCEPT !.computer_in_packet = fr, !.computer_in_size = Len(fr)]
        m1 == handle_EPAR_packet(With(Api, Frame(Request.EPAR, Tag(1), EncodeKey(k))), NoFault)
        m2 == handle_GPKY_packet(With(m1, Frame(Request.GPKY, Tag(2), <<>>)), gpakSize)
        m3 == handle_DCON_packet(With(m2, Frame(Request.DCON, Tag(3), <<>>)))
        m4 == handle_GPKY_packet(With(m3, Frame(Request.GPKY, Tag(4), <<>>)), gpakSize)
    IN  Slice(m4.computer_out_packet, 0, m4.computer_out_size)

\* C35: a GPAK reply produced while the node is logged out contains no byte
\* of the group key or of its export string, even when an earlier GPAK
\* reply of a logged-in session carried the key and other replies were
\* built in between: two runs that differ only in the group key give
\* identical replies to a GPKY request made after logout.
C35_ReplyAfterLogoutIndependentOfKey ==
    g_is_logged_in =>
        \A gpakSize \in GPAK_SIZES : \A k1 \in RandomKeys, k2 \in RandomKeys :
            ReplyAfterLogout(k1, gpakSize) = ReplyAfterLogout(k2, gpakSize)

\* what holds, checked right after a PASS request opened the session: the
\* status byte of that reply is 0x00, and bytes 16 to 31 are characters 5
\* to 20 of the export string, left by the earlier reply
C35_StaleExportCharacters ==
    (g_is_logged_in /\ pc = "to_device" /\ handled.handler = "PASS") =>
        \A gpakSize \in GPAK_SIZES : \A k \in RandomKeys :
            \E reply \in {ReplyAfterLogout(k, gpakSize)} :
                /\ Get(reply, 12) = 0
                /\ Slice(reply, 16, 16) = SubSeq(EncodeKey(k), 5, ExportLen)

\* ---------------------------------------------------------------------------
\* C37: for every frame that passes validation, no handler reads
\* computer_in_packet or writes device_out_packet at an index at or beyond
\* MAX_PACKET_SIZE; the password length, declared length - 16, does not wrap
\* around, and the relayed SEND size, declared length + 1, does not wrap
\* around or exceed the buffer.
\* handle_PASS_packet and handle_STPW_packet read computer_in_packet[12] to
\* [12 + password_size - 1]; handle_SEND_packet writes device_out_packet[0]
\* to [packet_size - 1].
C37_HandlersStayInsideBuffers ==
    [][(HandlesFrame /\ FourChecks(ReceivedFrame)) =>
        /\ handled'.handler \in {"PASS", "STPW"} =>
              /\ password_size(Api) = PacketSize(Api) - 16
              /\ 12 + password_size(Api) <= MAX_PACKET_SIZE
        /\ handled'.handler = "SEND" =>
              /\ relayed_size(Api) = PacketSize(Api) + 1
              /\ relayed_size(Api) <= MAX_PACKET_SIZE]_vars

\* what holds: the same for the validated frames of at least the sixteen
\* bytes of a frame without payload, none of which is as long as the buffer
C37_FullFramesStayInsideBuffers ==
    [][(HandlesFrame /\ FourChecks(ReceivedFrame)
            /\ computer_in_size >= MIN_FRAME /\ computer_in_size < MAX_PACKET_SIZE) =>
        /\ handled'.handler \in {"PASS", "STPW"} =>
              /\ password_size(Api) = PacketSize(Api) - 16
              /\ 12 + password_size(Api) <= MAX_PACKET_SIZE
        /\ handled'.handler = "SEND" =>
              /\ relayed_size(Api) = PacketSize(Api) + 1
              /\ relayed_size(Api) <= MAX_PACKET_SIZE]_vars

====
